---- MODULE Spec2Model ----
(***************************************************************************)
(* Trading-intelligence learning subsystem: the Auto-Logger paper-trade    *)
(* state machine (learning/auto_logger.py), the Strategy Factory version   *)
(* gate (learning/strategy_factory.py) and the Signal Log                  *)
(* (learning/signal_logger.py), the Feedback Loop                          *)
(* (learning/feedback_loop.py), the Pattern Miner                          *)
(* (learning/pattern_miner.py), the Rule Evolution engine                  *)
(* (learning/rule_evolution.py) and the Auto-Tuner                         *)
(* (learning/auto_tuner.py); and, outside the learning package, the        *)
(* Signal Generator (analysis/signals.py), the sentiment classification    *)
(* (analysis/sentiment.py) and the bar store (database/db_manager.py).     *)
(*                                                                         *)
(* Conventions.  An Optional value is a sequence: <<>> is None and <<v>>   *)
(* is the value v.  Prices, points and win rates are integers (whole       *)
(* dollars, whole percentage points); wall-clock time is in whole seconds. *)
(***************************************************************************)
EXTENDS Integers, Sequences, FiniteSets, TLC

VARIABLES
    \* ---- Auto-Logger (auto_logger.py)
    now,               \* wall clock, seconds
    config,            \* AutoLogger.config
    open_signals,      \* AutoLogger.open_signals : signal_id -> AutoSignal
    last_signal_hash,  \* AutoLogger.last_signal_hash
    stats,             \* AutoLogger.stats
    db_signals,        \* table `signals` of the store : signal_id -> row
    path,              \* history: what the ticks each stored trade observed did
    closed_log,        \* history: signal_id -> the row as it was first closed
    pending,           \* history: the trades stored as OPEN and not yet seen closed
    al_last,           \* history: what the last polling cycle was given and did
    loop_alive,        \* run_continuous is still iterating
    al_ops,            \* number of Auto-Logger operations performed
    \* ---- Strategy Factory (strategy_factory.py)
    versions,          \* StrategyFactory.versions
    current_version,   \* StrategyFactory.current_version (<<>> or <<version_id>>)
    versions_file,     \* strategy_versions.json (<<>> when the file does not exist)
    production_config, \* version id in production_config.json (<<>> when no file)
    optimized_config,  \* "config" of optimized_config.json (<<>> when no file)
    sf_last,           \* history: what the last factory operation did
    \* ---- Signal Log (signal_logger.py)
    signals,           \* SignalLogger.signals
    raw_signals,       \* SignalLogger._raw_signals
    history_file,      \* signal_history.json : the persisted `signals` list
    history_exists,    \* whether signal_history.json exists
    sl_new,            \* history: how the constructor of this SignalLogger ended
    sl_lookup,         \* history: the lookup by id of the last update or complete
    completed_as,      \* history: signal id -> result at its first completion
    sl_last,           \* history: the complete_signal call just applied, if any
    sl_ops,            \* number of Signal Log operations performed
    \* ---- Feedback Loop (feedback_loop.py)
    fb_recent,         \* table `signals`: tally of the outcomes of the last 7 days
    fb_older,          \* table `signals`: tally of the outcomes 7 to 30 days old
    fb_triggers,       \* number of rows of table `optimization_triggers`
    fb_last,           \* history: what the last update_outcome call did
    fb_ops,            \* number of Feedback Loop operations performed
    \* ---- Pattern Miner (pattern_miner.py)
    historical_data,     \* the rows mine_all_patterns loaded, in load order
    discovered_patterns, \* PatternMiner.discovered_patterns
    \* ---- Rule Evolution (rule_evolution.py)
    population,          \* RuleEvolution.population
    generation,          \* RuleEvolution.generation
    evolution_data,      \* the data the evolution is run on
    re_last,             \* history: what the last evolution operation did
    \* ---- Auto-Tuner (auto_tuner.py)
    current_config,      \* AutoTuner.current_config
    optimization_history,\* AutoTuner.optimization_history
    tuner_runs,          \* history: the data and the resulting config of each run
    \* ---- Signal Generator (signals.py)
    trading_signal,      \* the TradingSignal generate_signal returned last
    sg_last,             \* history: the ATR of the frame it was generated from
    \* ---- Sentiment Analyzer (sentiment.py)
    sentiment_report,    \* the SentimentReport analyze returned last
    \* ---- Database Manager (db_manager.py)
    ohlcv_data,          \* table `ohlcv_data` : <<symbol, date>> -> row
    bar_written,         \* history: <<symbol, date>> -> timestamp of the bar in the row
    db_last              \* history: the last save_ohlcv call and the table before it

al_vars == <<now, config, open_signals, last_signal_hash, stats, db_signals,
             path, closed_log, pending, al_last, loop_alive, al_ops>>
sf_vars == <<versions, current_version, versions_file, production_config,
             optimized_config, sf_last>>
sl_vars == <<signals, raw_signals, history_file, history_exists, completed_as,
             sl_last, sl_new, sl_lookup, sl_ops>>
fb_vars == <<fb_recent, fb_older, fb_triggers, fb_last, fb_ops>>
pm_vars == <<historical_data, discovered_patterns>>
re_vars == <<population, generation, evolution_data, re_last>>
at_vars == <<current_config, optimization_history, tuner_runs>>
ml_vars == <<pm_vars, re_vars, at_vars>>
sg_vars == <<trading_signal, sg_last>>
sa_vars == <<sentiment_report>>
db_vars == <<ohlcv_data, bar_written, db_last>>
an_vars == <<sg_vars, sa_vars, db_vars>>
vars == <<al_vars, sf_vars, sl_vars, fb_vars, ml_vars, an_vars>>

\* what the operations of one component leave alone
not_al == <<sf_vars, sl_vars, fb_vars, ml_vars, an_vars>>
not_sf == <<al_vars, sl_vars, fb_vars, ml_vars, an_vars>>
not_sl == <<al_vars, sf_vars, fb_vars, ml_vars, an_vars>>
not_fb == <<al_vars, sf_vars, sl_vars, ml_vars, an_vars>>
not_ml == <<al_vars, sf_vars, sl_vars, fb_vars, an_vars>>
not_an == <<al_vars, sf_vars, sl_vars, fb_vars, ml_vars>>
not_sg == <<not_an, sa_vars, db_vars>>
not_sa == <<not_an, sg_vars, db_vars>>
not_db == <<not_an, sg_vars, sa_vars>>
\* what the factory with its tuner leaves alone
not_loop == <<al_vars, sl_vars, fb_vars, pm_vars, re_vars, tuner_runs, an_vars>>
not_pm == <<not_ml, re_vars, at_vars>>
not_re == <<not_ml, pm_vars, at_vars>>
not_at == <<not_ml, pm_vars, re_vars>>

None == <<>>
Some(v) == <<v>>
Val(o) == o[1]

Max(a, b) == IF a >= b THEN a ELSE b
Min(a, b) == IF a <= b THEN a ELSE b

(***************************************************************************)
(*                              AUTO-LOGGER                                *)
(***************************************************************************)

\* ---- bounds of the Auto-Logger model
MaxOps == 3

\* timedelta(minutes=...) in seconds
SecondsPerMinute == 60

\* tick inputs
Prices == {100, 104, 108}
Scores == {50, 70}
\* seconds between two polling cycles: 0 = the next cycle reads the same
\* wall-clock second (check_interval_seconds is free, and run_once is public),
\* 3601 = a gap just longer than the default expiry of 60 minutes
Deltas == {0, 3601}
\* values handed to set_config
ConfigValues ==
    [stop_loss_points      |-> {0, 4},
     take_profit_points    |-> {0, 8},
     min_score             |-> {60, 80},
     signal_expiry_minutes |-> {60, 120}]
ConfigKeys == DOMAIN ConfigValues

\* tick documents: no document at all (fetch failed / empty), or a document
\* with or without `price`
TickDocs ==
    [price : {None} \cup {Some(p) : p \in Prices},
     score_long : Scores, score_short : Scores]
Ticks == {None} \cup {Some(d) : d \in TickDocs}
\* the same without the documents that carry no `price`
PricedTicks == {None} \cup {Some(d) : d \in {x \in TickDocs : x.price # None}}

DefaultConfig ==
    [stop_loss_points      |-> 4,
     take_profit_points    |-> 8,
     min_score             |-> 60,
     signal_expiry_minutes |-> 60]

ZeroStats == [total_signals |-> 0, wins |-> 0, losses |-> 0, expired |-> 0, open |-> 0]

\* AutoSignal(...) as check_for_new_signal builds it
AutoSignal(id, ts, direction, entry, sl, tp) ==
    [signal_id |-> id, timestamp |-> ts, direction |-> direction,
     entry_price |-> entry, stop_loss |-> sl, take_profit |-> tp,
     status |-> "OPEN", exit_price |-> None, exit_time |-> None, pnl |-> None,
     max_profit |-> 0, max_loss |-> 0]

\* data.get("price", 0)
PriceOf(doc) == IF doc.price = None THEN 0 ELSE Val(doc.price)

\* f"{price}_{score_long}_{score_short}"
SignalHash(doc) == <<PriceOf(doc), doc.score_long, doc.score_short>>

\* check_for_new_signal: None, or the new AutoSignal
check_for_new_signal(doc, cfg, hash, t) ==
    LET price == PriceOf(doc)
        sl_ == doc.score_long
        ss_ == doc.score_short
    IN  IF doc.price = None \/ price = 0 THEN None
        ELSE IF Some(SignalHash(doc)) = hash THEN None
        ELSE IF Max(sl_, ss_) < cfg.min_score THEN None
        ELSE IF sl_ > ss_ /\ sl_ >= cfg.min_score
             THEN Some(AutoSignal(t, t, "LONG", price,
                                  price - cfg.stop_loss_points,
                                  price + cfg.take_profit_points))
        ELSE IF ss_ > sl_ /\ ss_ >= cfg.min_score
             THEN Some(AutoSignal(t, t, "SHORT", price,
                                  price + cfg.stop_loss_points,
                                  price - cfg.take_profit_points))
        ELSE None

\* the closing assignments shared by every branch of check_signal_outcome
Closed(sig, status, price, pnl, t) ==
    [sig EXCEPT !.status = status, !.exit_price = Some(price),
                !.pnl = Some(pnl), !.exit_time = Some(t)]

\* check_signal_outcome with the expiry test moved before the TP and SL tests
check_signal_outcome_expiry_first(sig, price, cfg, t) ==
    IF sig.status # "OPEN" THEN sig
    ELSE
      LET pnl == IF sig.direction = "LONG" THEN price - sig.entry_price
                                           ELSE sig.entry_price - price
          s1  == [sig EXCEPT !.max_profit = Max(sig.max_profit, pnl),
                             !.max_loss   = Min(sig.max_loss, pnl)]
          tpHit == IF sig.direction = "LONG" THEN price >= sig.take_profit
                                             ELSE price <= sig.take_profit
          slHit == IF sig.direction = "LONG" THEN price <= sig.stop_loss
                                             ELSE price >= sig.stop_loss
      IN  IF t - sig.timestamp > cfg.signal_expiry_minutes * SecondsPerMinute
          THEN Closed(s1, "EXPIRED", price, pnl, t)
          ELSE IF tpHit THEN Closed(s1, "WIN", price, pnl, t)
          ELSE IF slHit THEN Closed(s1, "LOSS", price, pnl, t)
          ELSE s1

\* check_signal_outcome keeping the current pnl instead of the running extremes
check_signal_outcome_last_pnl(sig, price, cfg, t) ==
    IF sig.status # "OPEN" THEN sig
    ELSE
      LET pnl == IF sig.direction = "LONG" THEN price - sig.entry_price
                                           ELSE sig.entry_price - price
          s1  == [sig EXCEPT !.max_profit = pnl, !.max_loss = pnl]
          tpHit == IF sig.direction = "LONG" THEN price >= sig.take_profit
                                             ELSE price <= sig.take_profit
          slHit == IF sig.direction = "LONG" THEN price <= sig.stop_loss
                                             ELSE price >= sig.stop_loss
      IN  IF tpHit THEN Closed(s1, "WIN", price, pnl, t)
          ELSE IF slHit THEN Closed(s1, "LOSS", price, pnl, t)
          ELSE IF t - sig.timestamp > cfg.signal_expiry_minutes * SecondsPerMinute
               THEN Closed(s1, "EXPIRED", price, pnl, t)
          ELSE s1

\* check_signal_outcome with the SL test moved before the TP test
check_signal_outcome_sl_first(sig, price, cfg, t) ==
    IF sig.status # "OPEN" THEN sig
    ELSE
      LET pnl == IF sig.direction = "LONG" THEN price - sig.entry_price
                                           ELSE sig.entry_price - price
          s1  == [sig EXCEPT !.max_profit = Max(sig.max_profit, pnl),
                             !.max_loss   = Min(sig.max_loss, pnl)]
          tpHit == IF sig.direction = "LONG" THEN price >= sig.take_profit
                                             ELSE price <= sig.take_profit
          slHit == IF sig.direction = "LONG" THEN price <= sig.stop_loss
                                             ELSE price >= sig.stop_loss
      IN  IF slHit THEN Closed(s1, "LOSS", price, pnl, t)
          ELSE IF tpHit THEN Closed(s1, "WIN", price, pnl, t)
          ELSE IF t - sig.timestamp > cfg.signal_expiry_minutes * SecondsPerMinute
               THEN Closed(s1, "EXPIRED", price, pnl, t)
          ELSE s1

\* check_signal_outcome: the signal object after the call
check_signal_outcome(sig, price, cfg, t) ==
    IF sig.status # "OPEN" THEN sig
    ELSE
      LET pnl == IF sig.direction = "LONG" THEN price - sig.entry_price
                                           ELSE sig.entry_price - price
          s1  == [sig EXCEPT !.max_profit = Max(sig.max_profit, pnl),
                             !.max_loss   = Min(sig.max_loss, pnl)]
          tpHit == IF sig.direction = "LONG" THEN price >= sig.take_profit
                                             ELSE price <= sig.take_profit
          slHit == IF sig.direction = "LONG" THEN price <= sig.stop_loss
                                             ELSE price >= sig.stop_loss
      IN  IF tpHit THEN Closed(s1, "WIN", price, pnl, t)
          ELSE IF slHit THEN Closed(s1, "LOSS", price, pnl, t)
          ELSE IF t - sig.timestamp > cfg.signal_expiry_minutes * SecondsPerMinute
               THEN Closed(s1, "EXPIRED", price, pnl, t)
          ELSE s1

\* dict[key] = value
Put(f, k, v) == [x \in (DOMAIN f) \cup {k} |-> IF x = k THEN v ELSE f[x]]
\* del dict[key]
Del(f, k) == [x \in (DOMAIN f) \ {k} |-> f[x]]
EmptyMap == [x \in {} |-> None]

\* log_signal: INSERT OR REPLACE the row, track the signal as open, count it.
\* st is the logger's mutable state [open_signals, db_signals, stats]
log_signal(st, sig) ==
    [open_signals |-> Put(st.open_signals, sig.signal_id, sig),
     db_signals   |-> Put(st.db_signals, sig.signal_id, sig),
     stats        |-> [st.stats EXCEPT !.total_signals = @ + 1, !.open = @ + 1]]

\* _close_signal: UPDATE the row WHERE signal_id, update stats, stop tracking
close_signal(st, sig) ==
    LET id == sig.signal_id
        row(r) == [r EXCEPT !.status = sig.status, !.exit_price = sig.exit_price,
                            !.exit_time = sig.exit_time, !.pnl = sig.pnl,
                            !.max_profit = sig.max_profit, !.max_loss = sig.max_loss]
        st1 == [st.stats EXCEPT !.open = @ - 1]
    IN  [open_signals |-> IF id \in DOMAIN st.open_signals
                          THEN Del(st.open_signals, id) ELSE st.open_signals,
         db_signals   |-> IF id \in DOMAIN st.db_signals
                          THEN [st.db_signals EXCEPT ![id] = row(@)]
                          ELSE st.db_signals,
         stats        |-> IF sig.status = "WIN" THEN [st1 EXCEPT !.wins = @ + 1]
                          ELSE IF sig.status = "LOSS" THEN [st1 EXCEPT !.losses = @ + 1]
                          ELSE [st1 EXCEPT !.expired = @ + 1]]

\* the loop at the end of run_once: every tracked signal is checked against
\* the current price; a signal that closed goes through _close_signal, one
\* that stays open keeps its updated max_profit / max_loss in memory only
RECURSIVE check_all(_, _, _, _, _)
check_all(st, ids, price, cfg, t) ==
    IF ids = {} THEN st
    ELSE LET id  == CHOOSE i \in ids : TRUE
             sig == check_signal_outcome(st.open_signals[id], price, cfg, t)
             st1 == IF sig.status # "OPEN" /\ st.open_signals[id].status = "OPEN"
                    THEN close_signal(st, sig)
                    ELSE [st EXCEPT !.open_signals[id] = sig]
         IN  check_all(st1, ids \ {id}, price, cfg, t)

\* run_once on a fetched document: the new logger state [open_signals,
\* db_signals, stats, last_signal_hash]
run_once(doc, cfg, t) ==
    LET st0 == [open_signals |-> open_signals, db_signals |-> db_signals,
                stats |-> stats]
        new == check_for_new_signal(doc, cfg, last_signal_hash, t)
        st1 == IF new = None THEN st0 ELSE log_signal(st0, Val(new))
        st2 == check_all(st1, DOMAIN st1.open_signals, PriceOf(doc), cfg, t)
    IN  [open_signals |-> st2.open_signals, db_signals |-> st2.db_signals,
         stats |-> st2.stats,
         last_signal_hash |-> IF new = None THEN last_signal_hash
                              ELSE Some(SignalHash(doc))]

\* history kept beside run_once, one entry per stored trade: what the ticks
\* the trade was checked against while OPEN did (reset when log_signal writes
\* the row).  first = the first tick that touched TP or SL (a tick that touches
\* TP counts as TP), in_window = some touching tick came no later than
\* signal_expiry_minutes after the open timestamp, late = the last observed
\* tick came later than that, n = ticks observed
TouchTP(sig, price) ==
    IF sig.direction = "LONG" THEN price >= sig.take_profit
                              ELSE price <= sig.take_profit
TouchSL(sig, price) ==
    IF sig.direction = "LONG" THEN price <= sig.stop_loss
                              ELSE price >= sig.stop_loss

NoTrack == [first |-> None, in_window |-> FALSE, late |-> FALSE, n |-> 0]

Observe(tr, sig, price, cfg, t) ==
    LET tp == TouchTP(sig, price)
        sl == TouchSL(sig, price)
        inwin == t - sig.timestamp <= cfg.signal_expiry_minutes * SecondsPerMinute
    IN  [first |-> IF tr.first # None \/ ~(tp \/ sl) THEN tr.first
                   ELSE Some([kind |-> IF tp THEN "TP" ELSE "SL",
                              price |-> price, at |-> t]),
         in_window |-> tr.in_window \/ ((tp \/ sl) /\ inwin),
         late |-> ~inwin,
         n |-> tr.n + 1]

PathAfter(doc, cfg, t, new) ==
    LET p0 == IF new = None THEN path ELSE Put(path, Val(new).signal_id, NoTrack)
        o0 == IF new = None THEN open_signals
              ELSE Put(open_signals, Val(new).signal_id, Val(new))
    IN  [id \in DOMAIN p0 |->
            IF id \in DOMAIN o0 /\ o0[id].status = "OPEN"
            THEN Observe(p0[id], o0[id], PriceOf(doc), cfg, t)
            ELSE p0[id]]

\* history of the last polling cycle: kind = what the fetch brought ("nofetch":
\* nothing, "noprice": a document without `price`, "tick": a document with a
\* price; "restart": a new logger was constructed; "other": the last
\* operation was not a completed polling cycle),
\* fresh = the document's (price, score_long, score_short) differs from
\* last_signal_hash, qualifies = max(score_long, score_short) >= min_score,
\* side = the side of the larger score, opened = the direction of the trade
\* the cycle opened, if it opened one
NoPoll(kind) ==
    [kind |-> kind, fresh |-> FALSE, qualifies |-> FALSE, side |-> "TIE",
     opened |-> None]

PollOf(doc, cfg, hash, new) ==
    IF doc.price = None THEN NoPoll("noprice")
    ELSE [kind      |-> "tick",
          fresh     |-> hash # Some(<<Val(doc.price), doc.score_long, doc.score_short>>),
          qualifies |-> (doc.score_long >= cfg.min_score
                         \/ doc.score_short >= cfg.min_score),
          side      |-> IF doc.score_long > doc.score_short THEN "LONG"
                        ELSE IF doc.score_short > doc.score_long THEN "SHORT"
                        ELSE "TIE",
          opened    |-> IF new = None THEN None ELSE Some(Val(new).direction)]

ClosedLogAfter(db1) ==
    [id \in (DOMAIN closed_log) \cup
            {i \in DOMAIN db1 : db1[i].status # "OPEN"} |->
        IF id \in DOMAIN closed_log THEN closed_log[id] ELSE db1[id]]

\* a stored trade as the history tells it from another: its id, side and entry
TradeOf(sig) ==
    [signal_id |-> sig.signal_id, direction |-> sig.direction,
     entry_price |-> sig.entry_price]

\* the trades still waiting for an outcome after a polling cycle that
\* admitted new (or nothing) and left the rows db1
PendingAfter(new, db1) ==
    LET p0 == IF new = None THEN pending ELSE pending \cup {TradeOf(Val(new))}
    IN  {tr \in p0 : ~(/\ tr.signal_id \in DOMAIN db1
                       /\ TradeOf(db1[tr.signal_id]) = tr
                       /\ db1[tr.signal_id].status \in {"WIN", "LOSS", "EXPIRED"})}

InitAL ==
    /\ now = 0
    /\ config = DefaultConfig
    /\ open_signals = EmptyMap
    /\ last_signal_hash = None
    /\ stats = ZeroStats
    /\ db_signals = EmptyMap
    /\ path = EmptyMap
    /\ closed_log = EmptyMap
    /\ pending = {}
    /\ al_last = NoPoll("other")
    /\ loop_alive = TRUE
    /\ al_ops = 0

\* run_once on the fetched document doc at the time t
PollOn(doc, t) ==
    /\ open_signals' = run_once(doc, config, t).open_signals
    /\ db_signals' = run_once(doc, config, t).db_signals
    /\ stats' = run_once(doc, config, t).stats
    /\ last_signal_hash' = run_once(doc, config, t).last_signal_hash
    /\ path' = PathAfter(doc, config, t,
                         check_for_new_signal(doc, config, last_signal_hash, t))
    /\ closed_log' = ClosedLogAfter(db_signals')
    /\ pending' = PendingAfter(check_for_new_signal(doc, config, last_signal_hash, t),
                               db_signals')
    /\ al_last' = PollOf(doc, config, last_signal_hash,
                         check_for_new_signal(doc, config, last_signal_hash, t))

\* one polling cycle (run_once), dt seconds after the previous operation
RunOnce(tick, dt) ==
    /\ al_ops < MaxOps
    /\ loop_alive
    /\ al_ops' = al_ops + 1
    /\ now' = now + dt
    /\ UNCHANGED <<config, loop_alive, not_al>>
    /\ IF tick = None
       THEN /\ UNCHANGED <<open_signals, last_signal_hash, stats, db_signals,
                           path, closed_log, pending>>
            /\ al_last' = NoPoll("nofetch")
       ELSE PollOn(Val(tick), now + dt)

\* one iteration of run_continuous in which run_once raises before it changes
\* the logger: the INSERT into price_history fails (sqlite3.Error), or the
\* document's price is not a number (TypeError in check_for_new_signal).
\* run_continuous catches KeyboardInterrupt only, so the loop ends
RunOnceRaises(dt) ==
    /\ al_ops < MaxOps
    /\ loop_alive
    /\ al_ops' = al_ops + 1
    /\ now' = now + dt
    /\ loop_alive' = FALSE
    /\ al_last' = NoPoll("other")
    /\ UNCHANGED <<config, open_signals, last_signal_hash, stats, db_signals,
                   path, closed_log, pending, not_al>>

\* set_config(key=value)
set_config(cfg, key, value) ==
    IF key \in DOMAIN cfg THEN [cfg EXCEPT ![key] = value] ELSE cfg

SetConfig(key, value) ==
    /\ al_ops < MaxOps
    /\ al_ops' = al_ops + 1
    /\ config' = set_config(config, key, value)
    /\ config' # config
    /\ al_last' = NoPoll("other")
    /\ UNCHANGED <<loop_alive, now, open_signals, last_signal_hash, stats, db_signals,
                   path, closed_log, pending, not_al>>

\* _load_open_signals: SELECT * FROM signals WHERE status = 'OPEN'
load_open_signals(db) ==
    [id \in {i \in DOMAIN db : db[i].status = "OPEN"} |-> db[id]]

\* history of a restart: what the logger tracked, counted and remembered as
\* the last admitted tick when it stopped
Restarted ==
    [kind |-> "restart", fresh |-> FALSE, qualifies |-> FALSE, side |-> "TIE",
     opened |-> None, tracked |-> open_signals, open |-> stats.open,
     hash |-> last_signal_hash]

\* a new AutoLogger is constructed on the same store (process restart)
Restart ==
    /\ al_ops < MaxOps
    /\ al_ops' = al_ops + 1
    /\ db_signals # EmptyMap
    /\ config' = DefaultConfig
    /\ open_signals' = load_open_signals(db_signals)
    /\ last_signal_hash' = None
    /\ stats' = ZeroStats
    /\ al_last' = Restarted
    /\ loop_alive' = TRUE
    /\ UNCHANGED <<now, db_signals, path, closed_log, pending, not_al>>

\* the Auto-Logger fed by a tick source whose documents carry a price
NextAL ==
    \/ \E tick \in PricedTicks, dt \in Deltas : RunOnce(tick, dt)
    \/ \E dt \in Deltas : RunOnceRaises(dt)
    \/ \E key \in ConfigKeys : \E value \in ConfigValues[key] : SetConfig(key, value)
    \/ Restart

\* the Auto-Logger fed by any document, with or without `price`
NextALDoc ==
    \/ \E tick \in Ticks, dt \in Deltas : RunOnce(tick, dt)
    \/ \E dt \in Deltas : RunOnceRaises(dt)
    \/ \E key \in ConfigKeys : \E value \in ConfigValues[key] : SetConfig(key, value)
    \/ Restart

\* ---- the polling loop that keeps running (run_continuous: while
\* self.running: run_once(); sleep).  Once MaxOps operations are spent the
\* loop goes on polling for as long as a trade is open, on documents whose
\* scores stay below every min_score, so that no further trade is opened
QuietDocs ==
    {d \in TickDocs : d.price # None /\ \A m \in ConfigValues.min_score \cup {DefaultConfig.min_score} :
                                          Max(d.score_long, d.score_short) < m}
PricedDocs == {d \in TickDocs : d.price # None}
\* the gaps in which the clock advances
Advances == Deltas \ {0}

HasOpen ==
    \/ open_signals # EmptyMap
    \/ \E id \in DOMAIN db_signals : db_signals[id].status = "OPEN"

KeepPolling(doc, dt) ==
    /\ al_ops = MaxOps
    /\ loop_alive
    /\ HasOpen
    /\ now' = now + dt
    /\ PollOn(doc, now + dt)
    /\ UNCHANGED <<al_ops, config, loop_alive, not_al>>

\* a polling cycle that delivers a document with a price later than the
\* previous one
PricedPoll ==
    \/ \E doc \in PricedDocs, dt \in Advances : RunOnce(Some(doc), dt)
    \/ \E doc \in QuietDocs, dt \in Advances : KeepPolling(doc, dt)

\* the same cycle told by what it leaves behind: the loop could poll, the
\* clock has advanced and the history of the cycle says a priced document
\* came.  ENABLED of this action needs no run_once to be computed
TickPolls ==
    [kind : {"tick"}, fresh : BOOLEAN, qualifies : BOOLEAN,
     side : {"LONG", "SHORT", "TIE"},
     opened : {None, Some("LONG"), Some("SHORT")}]

PricedPollStep ==
    /\ loop_alive
    /\ al_ops < MaxOps \/ (al_ops = MaxOps /\ HasOpen)
    /\ \E dt \in Advances : now' = now + dt
    /\ al_last' \in TickPolls

\* the Auto-Logger whose loop never ends on an exception
NextALFair ==
    \/ \E tick \in PricedTicks, dt \in Deltas : RunOnce(tick, dt)
    \/ \E key \in ConfigKeys : \E value \in ConfigValues[key] : SetConfig(key, value)
    \/ Restart
    \/ \E doc \in QuietDocs, dt \in Advances : KeepPolling(doc, dt)


(***************************************************************************)
(*                           STRATEGY FACTORY                              *)
(***************************************************************************)

\* ---- bounds of the Strategy Factory model
MaxVersions == 2

\* self.min_improvement = 5.0 (percentage points of win rate)
min_improvement == 5

\* round(avg_win_rate, 2) of the top rules, as produced by the evolver
WinRates == {58, 60, 62, 63}

\* where an operation's I/O may raise: nowhere, in a learning phase (for
\* run_optimization: when it loads the data, or in export_config after the
\* tuner has run), in _save_versions (under create_version or
\* deploy_version), in _export_production_files
LoopFaults == {"none", "discovery", "evolution", "optimization", "export_config",
               "create_save", "deploy_save", "export"}
DeployFaults == {"none", "deploy_save", "export"}

StrategyVersion(id, wr) == [version_id |-> id, win_rate |-> wr, is_active |-> FALSE]

\* the factory's state as one value
Factory ==
    [versions |-> versions, current_version |-> current_version,
     versions_file |-> versions_file, production_config |-> production_config,
     raised |-> FALSE]

Raise(f) == [f EXCEPT !.raised = TRUE]

\* next(v for v in self.versions if v.version_id == version_id)
VersionIndex(vs, id) ==
    IF \E i \in 1..Len(vs) : vs[i].version_id = id
    THEN Some(CHOOSE i \in 1..Len(vs) :
                 /\ vs[i].version_id = id
                 /\ \A j \in 1..(i - 1) : vs[j].version_id # id)
    ELSE None

WinRateOf(vs, id) == vs[Val(VersionIndex(vs, id))].win_rate

\* _save_versions: the document written to strategy_versions.json
save_versions(f, fault) ==
    IF fault THEN Raise(f)
    ELSE [f EXCEPT !.versions_file =
              Some([versions |-> f.versions, current |-> f.current_version])]

\* _load_versions on a new factory
load_versions(file) ==
    IF file = None
    THEN [versions |-> <<>>, current_version |-> None]
    ELSE LET vs == Val(file).versions
             active == {i \in 1..Len(vs) : vs[i].is_active}
         IN  [versions |-> vs,
              current_version |->
                  IF active = {} THEN None
                  ELSE Some(vs[CHOOSE i \in active : \A j \in active : i <= j].version_id)]

\* _export_production_files: "version" is current_version.version_id, else "v0"
export_production_files(f, fault) ==
    IF fault THEN Raise(f)
    ELSE [f EXCEPT !.production_config =
              IF f.current_version = None THEN Some(0) ELSE f.current_version]

\* create_version: append an inactive version, then _save_versions
create_version(f, wr, fault) ==
    LET v == StrategyVersion(Len(f.versions) + 1, wr)
    IN  save_versions([f EXCEPT !.versions = Append(f.versions, v)],
                      fault = "create_save")

\* deploy_version without the loop that deactivates the other versions
deploy_version_keep_active(f, id, fault) ==
    LET ix == VersionIndex(f.versions, id)
    IN  IF ix = None THEN f
        ELSE LET vs == [f.versions EXCEPT ![Val(ix)].is_active = TRUE]
                 f1 == [f EXCEPT !.versions = vs, !.current_version = Some(id)]
                 f2 == save_versions(f1, fault = "deploy_save")
             IN  IF f2.raised THEN f2
                 ELSE export_production_files(f2, fault = "export")

\* deploy_version: deactivate all, activate the version, save, export
deploy_version(f, id, fault) ==
    LET ix == VersionIndex(f.versions, id)
    IN  IF ix = None THEN f
        ELSE LET vs == [i \in 1..Len(f.versions) |->
                           [f.versions[i] EXCEPT !.is_active = (i = Val(ix))]]
                 f1 == [f EXCEPT !.versions = vs, !.current_version = Some(id)]
                 f2 == save_versions(f1, fault = "deploy_save")
             IN  IF f2.raised THEN f2
                 ELSE export_production_files(f2, fault = "export")

\* the deploy gate of run_the_loop (Phase 5); cur is the active version's
\* win rate, None when there is no current version
should_deploy_strict(cur, new_wr) ==
    IF cur # None THEN new_wr - Val(cur) > min_improvement ELSE TRUE

should_deploy_relative(cur, new_wr) ==
    IF cur # None
    THEN (new_wr - Val(cur)) * 100 >= min_improvement * Val(cur)
    ELSE TRUE

should_deploy(cur, new_wr) ==
    IF cur # None THEN new_wr - Val(cur) >= min_improvement ELSE TRUE

\* one iteration of run_the_loop: [f |-> factory after it, status, gate |->
\* whether Phase 5 was reached, deployed |-> iteration_result["deployed"]]
loop_iteration(f, wr, fault) ==
    IF fault \in {"discovery", "evolution", "optimization", "export_config"}
    THEN [f |-> f, status |-> "error", gate |-> FALSE, deployed |-> FALSE]
    ELSE
      LET f1  == create_version(f, wr, fault)
          id  == Len(f1.versions)
          cur == IF f1.current_version = None THEN None
                 ELSE Some(WinRateOf(f1.versions, Val(f1.current_version)))
          go  == should_deploy(cur, wr)
          f2  == deploy_version(f1, id, fault)
      IN  IF f1.raised
          THEN [f |-> f1, status |-> "error", gate |-> FALSE, deployed |-> FALSE]
          ELSE IF ~go
          THEN [f |-> f1, status |-> "success", gate |-> TRUE, deployed |-> FALSE]
          ELSE IF f2.raised
          THEN [f |-> f2, status |-> "error", gate |-> TRUE, deployed |-> FALSE]
          ELSE [f |-> f2, status |-> "success", gate |-> TRUE, deployed |-> TRUE]

\* the active version recorded in the persisted version file
FileActive(file) ==
    IF file = None THEN None ELSE load_versions(file).current_version

SetFactory(f) ==
    /\ versions' = f.versions
    /\ current_version' = f.current_version
    /\ versions_file' = f.versions_file
    /\ production_config' = f.production_config

\* history record of the last factory operation
Last(op, status, gate, deployed, vid, wr) ==
    [op |-> op, status |-> status, gate |-> gate, deployed |-> deployed,
     vid |-> vid, wr |-> wr,
     pre_current |-> current_version,
     pre_wr |-> IF current_version = None THEN None
                ELSE Some(WinRateOf(versions, Val(current_version))),
     pre_file |-> FileActive(versions_file),
     pre_config |-> current_config, pre_optimized |-> optimized_config,
     pre_active |-> {versions[i].version_id : i \in {j \in 1..Len(versions) : versions[j].is_active}}]

\* the factory's Init and operations follow the Auto-Tuner, which its
\* learning loop runs

(***************************************************************************)
(*                               SIGNAL LOG                                *)
(***************************************************************************)

\* ---- bounds of the Signal Log model
MaxLogOps == 5

\* inputs of log_signal: (signal_type, entry_price, suggested_stop, suggested_target)
LogInputs ==
    {[signal_type |-> "LONG",  entry_price |-> 100, suggested_stop |-> 96,
      suggested_target |-> 108],
     [signal_type |-> "SHORT", entry_price |-> 100, suggested_stop |-> 108,
      suggested_target |-> 96]}
\* prices handed to update_outcome and complete_signal
LogPrices == {96, 100, 104, 108}
\* minutes_elapsed handed to update_outcome (from TRACKING_INTERVALS)
Minutes == {1, 3}

\* SignalOutcome(tracked_until=...)
SignalOutcome ==
    [snapshots |-> <<>>, max_profit |-> 0, max_drawdown |-> 0, peak_time |-> None,
     result |-> "PENDING", target_hit |-> FALSE, target_price |-> None,
     target_time |-> None, stop_hit |-> FALSE, final_pnl |-> 0]

\* SignalRecord(..., status="PENDING")
SignalRecord(id, in) ==
    [id |-> id, signal_type |-> in.signal_type, entry_price |-> in.entry_price,
     suggested_stop |-> in.suggested_stop, suggested_target |-> in.suggested_target,
     outcome |-> None, status |-> "PENDING"]

\* find_signal: index of the first record of self.signals with this id
find_signal(sigs, id) ==
    IF \E i \in 1..Len(sigs) : sigs[i].id = id
    THEN Some(CHOOSE i \in 1..Len(sigs) :
                 /\ sigs[i].id = id
                 /\ \A j \in 1..(i - 1) : sigs[j].id # id)
    ELSE None

\* _save_history: raw signals followed by the in-memory records
save_history(raw, sigs) == raw \o sigs

\* signal.outcome.snapshots[interval_key] = PriceSnapshot(...): a dict keeps
\* the position of a key it already holds and appends a new key
SetSnapshot(snaps, snap) ==
    IF \E i \in 1..Len(snaps) : snaps[i].minutes = snap.minutes
    THEN [i \in 1..Len(snaps) |->
             IF snaps[i].minutes = snap.minutes THEN snap ELSE snaps[i]]
    ELSE Append(snaps, snap)

PnL(rec, price) ==
    IF rec.signal_type = "LONG" THEN price - rec.entry_price
                                ELSE rec.entry_price - price

\* update_outcome on a record that was found
update_record(rec, price, minutes) ==
    LET pnl == PnL(rec, price)
        o0  == IF rec.outcome = None THEN SignalOutcome ELSE Val(rec.outcome)
        o1  == [o0 EXCEPT !.snapshots =
                   SetSnapshot(@, [minutes |-> minutes, price |-> price, pnl |-> pnl])]
        o2  == IF pnl > o1.max_profit
               THEN [o1 EXCEPT !.max_profit = pnl, !.peak_time = Some(minutes)]
               ELSE o1
        o3  == IF pnl < o2.max_drawdown THEN [o2 EXCEPT !.max_drawdown = pnl] ELSE o2
        tgt == IF rec.signal_type = "LONG" THEN price >= rec.suggested_target
                                           ELSE price <= rec.suggested_target
        stp == IF rec.signal_type = "LONG" THEN price <= rec.suggested_stop
                                           ELSE price >= rec.suggested_stop
        o4  == IF tgt /\ ~o3.target_hit
               THEN [o3 EXCEPT !.target_hit = TRUE, !.target_price = Some(price),
                               !.target_time = Some(minutes)]
               ELSE o3
        o5  == IF stp THEN [o4 EXCEPT !.stop_hit = TRUE] ELSE o4
    IN  [rec EXCEPT !.outcome = Some(o5), !.status = "TRACKING"]

\* complete_signal with the stop tested before the target
complete_record_stop_first(rec, final_price) ==
    LET final_pnl == PnL(rec, final_price)
        o == Val(rec.outcome)
        result == IF o.stop_hit THEN "LOSS"
                  ELSE IF o.target_hit THEN "WIN"
                  ELSE IF final_pnl > 0 THEN "WIN"
                  ELSE IF final_pnl < 0 THEN "LOSS"
                  ELSE "BREAKEVEN"
    IN  [rec EXCEPT !.outcome = Some([o EXCEPT !.final_pnl = final_pnl,
                                               !.result = result]),
                    !.status = "COMPLETED"]

\* complete_signal on a record that was found and has an outcome
complete_record(rec, final_price) ==
    LET final_pnl == PnL(rec, final_price)
        o == Val(rec.outcome)
        result == IF o.target_hit THEN "WIN"
                  ELSE IF o.stop_hit THEN "LOSS"
                  ELSE IF final_pnl > 0 THEN "WIN"
                  ELSE IF final_pnl < 0 THEN "LOSS"
                  ELSE "BREAKEVEN"
    IN  [rec EXCEPT !.outcome = Some([o EXCEPT !.final_pnl = final_pnl,
                                               !.result = result]),
                    !.status = "COMPLETED"]

\* history: the result each id was given when it first became COMPLETED
CompletedAfter(sigs) ==
    [id \in (DOMAIN completed_as) \cup
            {sigs[i].id : i \in {j \in 1..Len(sigs) : sigs[j].status = "COMPLETED"}} |->
        IF id \in DOMAIN completed_as THEN completed_as[id]
        ELSE Val(sigs[Val(find_signal(sigs, id))].outcome).result]

\* history of a lookup: whether find_signal found the id, and whether the
\* history file held a record of that id
Lookup(id, ix) ==
    Some([found |-> ix # None,
          persisted |-> \E i \in 1..Len(history_file) : history_file[i].id = id])

InitSL ==
    /\ signals = <<>>
    /\ raw_signals = <<>>
    /\ history_file = <<>>
    /\ history_exists = TRUE
    /\ completed_as = EmptyMap
    /\ sl_last = None
    /\ sl_new = [missing |-> FALSE, raised |-> FALSE]
    /\ sl_lookup = None
    /\ sl_ops = 0

\* SignalLogger(history_file): __init__ and _load_history.  On an existing
\* file the records go to _raw_signals and self.signals starts empty.  With
\* no file, _load_history calls _save_history, which reads self._raw_signals
\* before anything assigned it: AttributeError, the constructor returns no
\* logger and no file is written
NewLogger ==
    /\ sl_ops < MaxLogOps
    /\ sl_ops' = sl_ops + 1
    /\ signals' = <<>>
    /\ raw_signals' = IF history_exists THEN history_file ELSE <<>>
    /\ sl_new' = [missing |-> ~history_exists, raised |-> ~history_exists]
    /\ sl_last' = None
    /\ sl_lookup' = None
    /\ UNCHANGED <<history_file, history_exists, completed_as, not_sl>>

\* the history file is absent: it was removed, or the data directory is new
RemoveHistory ==
    /\ sl_ops < MaxLogOps
    /\ sl_ops' = sl_ops + 1
    /\ history_exists
    /\ history_exists' = FALSE
    /\ history_file' = <<>>
    /\ sl_last' = None
    /\ sl_lookup' = None
    /\ UNCHANGED <<signals, raw_signals, completed_as, sl_new, not_sl>>

\* log_signal(...)
LogSignal(in) ==
    /\ sl_ops < MaxLogOps
    /\ ~sl_new.raised
    /\ sl_ops' = sl_ops + 1
    /\ LET id == Len(raw_signals) + Len(signals) + 1
       IN  /\ signals' = Append(signals, SignalRecord(id, in))
    /\ history_file' = save_history(raw_signals, signals')
    /\ history_exists' = TRUE
    /\ sl_last' = None
    /\ sl_lookup' = None
    /\ UNCHANGED <<raw_signals, completed_as, sl_new, not_sl>>

\* update_outcome(signal_id, current_price, minutes_elapsed)
UpdateOutcome(id, price, minutes) ==
    /\ sl_ops < MaxLogOps
    /\ ~sl_new.raised
    /\ sl_ops' = sl_ops + 1
    /\ LET ix == find_signal(signals, id)
       IN  /\ sl_lookup' = Lookup(id, ix)
           /\ IF ix = None
              THEN UNCHANGED <<signals, history_file, history_exists>>
              ELSE /\ signals' = [signals EXCEPT ![Val(ix)] =
                                      update_record(@, price, minutes)]
                   /\ history_file' = save_history(raw_signals, signals')
                   /\ history_exists' = TRUE
    /\ sl_last' = None
    /\ UNCHANGED <<raw_signals, sl_new, not_sl>>
    /\ completed_as' = CompletedAfter(signals')

\* complete_signal(signal_id, final_price)
CompleteSignal(id, price) ==
    /\ sl_ops < MaxLogOps
    /\ ~sl_new.raised
    /\ sl_ops' = sl_ops + 1
    /\ LET ix == find_signal(signals, id)
       IN  /\ sl_lookup' = Lookup(id, ix)
           /\ IF ix = None \/ signals[Val(ix)].outcome = None
              THEN /\ UNCHANGED <<signals, history_file, history_exists>>
                   /\ sl_last' = None
              ELSE /\ signals' = [signals EXCEPT ![Val(ix)] = complete_record(@, price)]
                   /\ history_file' = save_history(raw_signals, signals')
                   /\ history_exists' = TRUE
                   /\ sl_last' = Some([id |-> id, final_price |-> price])
    /\ UNCHANGED <<raw_signals, sl_new, not_sl>>
    /\ completed_as' = CompletedAfter(signals')

\* ids a caller may name: every id handed out so far and one that was not
SignalIds == 1..(Len(raw_signals) + Len(signals) + 1)

NextSL ==
    \/ NewLogger
    \/ RemoveHistory
    \/ \E in \in LogInputs : LogSignal(in)
    \/ \E id \in SignalIds, price \in LogPrices, minutes \in Minutes :
           UpdateOutcome(id, price, minutes)
    \/ \E id \in SignalIds, price \in LogPrices : CompleteSignal(id, price)

(***************************************************************************)
(*                             FEEDBACK LOOP                               *)
(***************************************************************************)

\* ---- bounds of the Feedback Loop model
MaxFbOps == 2

\* thresholds of FeedbackLoop.__init__; win rates and profit factors are kept
\* in hundredths (round(x, 2)), money in cents
min_win_rate == 5000
min_profit_factor == 120
degradation_threshold == 1000
\* total_loss when there is no losing signal: 0.01
NoLossDivisor == 1

\* the rows with an outcome whose timestamp falls in one window, tallied:
\* calculate_metrics reads them only through these counts and sums
Tally(wins, losses, others, profit, loss) ==
    [wins |-> wins, losses |-> losses, others |-> others,
     profit |-> profit, loss |-> loss]
ZeroTally == Tally(0, 0, 0, 0, 0)

\* stores a Feedback Loop may be opened on
RecentTallies ==
    {ZeroTally, Tally(3, 1, 0, 280, 100), Tally(2, 1, 0, 240, 100),
     Tally(1, 2, 0, 300, 200), Tally(1, 1, 1, 100, 100)}
OlderTallies ==
    {ZeroTally, Tally(28, 17, 0, 2800, 1700), Tally(29, 17, 0, 2900, 1700),
     Tally(4, 2, 0, 400, 200)}

\* inputs of update_outcome: the age of the signal it names, the outcome and
\* the pnl it computes from exit_price
Windows == {"recent", "older", "stale"}
Outcomes == {"WIN", "LOSS", "BREAKEVEN"}
Pnls == {100, 120}

\* get_signals(days): the rows newer than the cutoff
Merge(a, b) ==
    Tally(a.wins + b.wins, a.losses + b.losses, a.others + b.others,
          a.profit + b.profit, a.loss + b.loss)

\* UPDATE signals SET outcome = ?, pnl = ? on a row of this tally
AddOutcome(t, outcome, pnl) ==
    IF outcome = "WIN" THEN [t EXCEPT !.wins = @ + 1, !.profit = @ + pnl]
    ELSE IF outcome = "LOSS" THEN [t EXCEPT !.losses = @ + 1, !.loss = @ + pnl]
    ELSE [t EXCEPT !.others = @ + 1]

\* round(n / d, 0) with ties to even, as Python's round
RoundDiv(n, d) ==
    LET q == n \div d
        r == n % d
    IN  IF 2 * r > d THEN q + 1
        ELSE IF 2 * r < d THEN q
        ELSE IF q % 2 = 0 THEN q ELSE q + 1

\* calculate_metrics(days): None without signals, else the PerformanceMetrics
calculate_metrics(t) ==
    LET total == t.wins + t.losses + t.others
        total_loss == IF t.losses = 0 THEN NoLossDivisor ELSE t.loss
    IN  IF total = 0 THEN None
        ELSE Some([total_signals |-> total, wins |-> t.wins, losses |-> t.losses,
                   win_rate |-> RoundDiv(t.wins * 10000, total),
                   profit_factor |-> RoundDiv(t.profit * 100, total_loss)])

\* _check_performance with the thresholds themselves counted as degraded
check_performance_inclusive(recent, historical) ==
    IF recent = None \/ historical = None THEN FALSE
    ELSE \/ Val(recent).win_rate <= Val(historical).win_rate - degradation_threshold
         \/ Val(recent).profit_factor <= min_profit_factor
         \/ Val(recent).win_rate <= min_win_rate

\* _check_performance: TRUE iff a trigger is logged
check_performance(recent, historical) ==
    IF recent = None \/ historical = None THEN FALSE
    ELSE \/ Val(recent).win_rate < Val(historical).win_rate - degradation_threshold
         \/ Val(recent).profit_factor < min_profit_factor
         \/ Val(recent).win_rate < min_win_rate

InitFB ==
    /\ fb_recent = ZeroTally
    /\ fb_older = ZeroTally
    /\ fb_triggers = 0
    /\ fb_last = [op |-> "init", fired |-> FALSE]
    /\ fb_ops = 0

\* FeedbackLoop(db_path) on a database that already holds signals with outcomes
FbOpen(recent, older) ==
    /\ fb_ops = 0
    /\ fb_last.op = "init"
    /\ <<recent, older>> # <<fb_recent, fb_older>>
    /\ fb_recent' = recent
    /\ fb_older' = older
    /\ fb_last' = [op |-> "open", fired |-> FALSE]
    /\ UNCHANGED <<fb_triggers, fb_ops, not_fb>>

\* update_outcome(signal_id, exit_price, outcome) on a signal that has no
\* outcome yet; found = the id names a row, window = the age of that row
FbUpdateOutcome(found, window, outcome, pnl) ==
    /\ fb_ops < MaxFbOps
    /\ fb_ops' = fb_ops + 1
    /\ UNCHANGED not_fb
    /\ IF ~found
       THEN /\ UNCHANGED <<fb_recent, fb_older, fb_triggers>>
            /\ fb_last' = [op |-> "missing", fired |-> FALSE]
       ELSE LET amount == IF outcome = "BREAKEVEN" THEN 0 ELSE pnl
                recent1 == IF window = "recent"
                           THEN AddOutcome(fb_recent, outcome, amount) ELSE fb_recent
                older1  == IF window = "older"
                           THEN AddOutcome(fb_older, outcome, amount) ELSE fb_older
                fired   == check_performance(calculate_metrics(recent1),
                                             calculate_metrics(Merge(recent1, older1)))
            IN  /\ fb_recent' = recent1
                /\ fb_older' = older1
                /\ fb_triggers' = IF fired THEN fb_triggers + 1 ELSE fb_triggers
                /\ fb_last' = [op |-> "update", fired |-> fired]

NextFB ==
    \/ \E recent \in RecentTallies, older \in OlderTallies : FbOpen(recent, older)
    \/ \E found \in BOOLEAN, window \in Windows, outcome \in Outcomes, pnl \in Pnls :
        FbUpdateOutcome(found, window, outcome, pnl)

(***************************************************************************)
(*                    PATTERN MINER (pattern_miner.py)                     *)
(*                                                                         *)
(* The historical data is a list of rows.  A run of identical rows is      *)
(* written once with its length in `count`; a list comprehension over the  *)
(* rows keeps or drops the whole run.  pnl is in whole dollars; win_rate   *)
(* and profit_factor are in hundredths, confidence in tenths.  A           *)
(* pattern's name, description, avg_profit, max_drawdown and discovered_at *)
(* are left out.                                                           *)
(***************************************************************************)

\* most runs of rows in one data set
MaxRuns == 3

miner_min_sample_size == 30      \* self.min_sample_size
miner_min_win_rate == 5500       \* self.min_win_rate, 55.0
miner_min_profit_factor == 130   \* self.min_profit_factor, 1.3
MissingIndicator == 50           \* the default of d.get(indicator, 50)

Row(regime, session, direction, rsi, stoch_k, adx, outcome, pnl, count) ==
    [regime |-> regime, session |-> session, direction |-> direction,
     rsi |-> rsi, stoch_k |-> stoch_k, adx |-> adx,
     outcome |-> outcome, pnl |-> pnl, count |-> count]

\* the runs of rows the data sets are made of
LongWins == Row("STRONG_UPTREND", "london", "LONG", 62, 20, 32, "WIN", 8, 20)
LongLosses == Row("STRONG_UPTREND", "london", "LONG", 62, 20, 32, "LOSS", -4, 10)
AsiaShortLosses == Row("STRONG_UPTREND", "asia", "SHORT", 62, 20, 32, "LOSS", -4, 10)
RangingWins == Row("RANGING", "overlap", "LONG", 62, 20, 32, "WIN", 6, 5)
ShortWins == Row("WEAK_DOWNTREND", "newyork", "SHORT", 42, 78, 33, "WIN", 5, 30)
ShortLosses == Row("WEAK_DOWNTREND", "newyork", "SHORT", 42, 78, 33, "LOSS", -5, 20)

RowRuns ==
    { LongWins, LongLosses, AsiaShortLosses, RangingWins, ShortWins, ShortLosses }

\* the data sets: lists of up to MaxRuns different runs
DataSets ==
    { h \in UNION { [1..n -> RowRuns] : n \in 1..MaxRuns } :
        \A i, j \in DOMAIN h : i # j => h[i] # h[j] }

Abs(x) == IF x < 0 THEN -x ELSE x

\* d.get(indicator, 50)
Get(d, indicator) == IF indicator \in DOMAIN d THEN d[indicator] ELSE MissingIndicator

Compare(x, operator, value) ==
    IF operator = "<" THEN x < value ELSE x > value

\* what the statistics of a candidate are computed from: len(filtered),
\* len(wins), sum of the pnl of the wins, sum of the pnl of the losses, and
\* the sums the means over the wins are taken from
NoRows == [n |-> 0, wins |-> 0, losses |-> 0, profit |-> 0, loss |-> 0,
           rsi |-> 0, stoch_k |-> 0, adx |-> 0]

AddRows(t, d) ==
    IF d.outcome = "WIN"
    THEN [t EXCEPT !.n = @ + d.count, !.wins = @ + d.count,
                   !.profit = @ + d.pnl * d.count,
                   !.rsi = @ + d.rsi * d.count,
                   !.stoch_k = @ + d.stoch_k * d.count,
                   !.adx = @ + d.adx * d.count]
    ELSE IF d.outcome = "LOSS"
    THEN [t EXCEPT !.n = @ + d.count, !.losses = @ + d.count,
                   !.loss = @ + d.pnl * d.count]
    ELSE [t EXCEPT !.n = @ + d.count]

TallyOf(filtered) ==
    LET tally[i \in 0..Len(filtered)] ==
            IF i = 0 THEN NoRows ELSE AddRows(tally[i - 1], filtered[i])
    IN  tally[Len(filtered)]

\* len(rows)
Rows(s) == TallyOf(s).n

\* win_rate is 100 * wins / n; profit_factor is pf_num / pf_den, where
\* total_loss = abs(sum of the pnl of the losses) or 0.01
with_rates(t) ==
    [n |-> t.n, wins |-> t.wins,
     pf_num |-> IF t.loss = 0 THEN t.profit * 100 ELSE t.profit,
     pf_den |-> IF t.loss = 0 THEN 1 ELSE Abs(t.loss),
     rsi |-> t.rsi, stoch_k |-> t.stoch_k, adx |-> t.adx]

pattern_stats(filtered) == with_rates(TallyOf(filtered))

\* the two gates every family applies after its own sample gate
passes_rates(st) ==
    /\ ~ (st.wins * 10000 < miner_min_win_rate * st.n)
    /\ ~ (st.pf_num * 100 < miner_min_profit_factor * st.pf_den)

\* round(min(100, (win_rate-50)*2 + (profit_factor-1)*20 + min(n/10, 30) + bonus), 1)
pattern_confidence(st, bonus) ==
    LET den == st.n * st.pf_den
        num == 2000 * st.wins * st.pf_den + 200 * st.pf_num * st.n
               + (Min(st.n, 300) - 1200 + 10 * bonus) * den
    IN  IF num >= 1000 * den THEN 1000 ELSE RoundDiv(num, den)

\* the keys of regime_stats / session_stats, in order of first appearance
AddKey(keys, k) ==
    IF \E j \in 1..Len(keys) : keys[j] = k THEN keys ELSE Append(keys, k)

KeysOf(filtered, field) ==
    LET keys[i \in 0..Len(filtered)] ==
            IF i = 0 THEN <<>> ELSE AddKey(keys[i - 1], filtered[i][field])
    IN  keys[Len(filtered)]

\* max(stats.keys(), key=mean of wins, default="ALL"): the first key of the
\* largest share of wins
better_key(filtered, field, best, k) ==
    LET of(key) == pattern_stats(SelectSeq(filtered, LAMBDA d : d[field] = key))
        better(a, b) == a.wins * b.n > b.wins * a.n
    IN  IF better(of(k), of(best)) THEN k ELSE best

best_of(filtered, field, keys) ==
    LET best[i \in 1..Len(keys)] ==
            IF i = 1 THEN keys[1]
            ELSE better_key(filtered, field, best[i - 1], keys[i])
    IN  IF keys = <<>> THEN "ALL" ELSE best[Len(keys)]

best_key(filtered, field) == best_of(filtered, field, KeysOf(filtered, field))

\* round(np.mean([d[indicator] for d in wins]), 1), in tenths
mean_of(st, indicator) == RoundDiv(10 * st[indicator], st.wins)

DiscoveredPattern(family, key, conditions, direction, st, regime, session, bonus) ==
    [family |-> family, pattern_id |-> key, conditions |-> conditions,
     direction |-> direction,
     win_rate |-> RoundDiv(st.wins * 10000, st.n),
     profit_factor |-> RoundDiv(st.pf_num * 100, st.pf_den),
     sample_size |-> st.n,
     best_regime |-> regime, best_session |-> session,
     confidence |-> pattern_confidence(st, bonus)]

Cond(indicator, operator, value) ==
    [indicator |-> indicator, operator |-> operator, value |-> value]

indicators == <<"rsi", "stoch_k", "adx", "atr_percentile">>
indicator_thresholds ==
    [rsi |-> <<20, 25, 30, 35, 40, 60, 65, 70, 75, 80>>,
     stoch_k |-> <<15, 20, 25, 30, 70, 75, 80, 85>>,
     adx |-> <<15, 20, 25, 30, 35, 40>>,
     atr_percentile |-> <<20, 30, 40, 60, 70, 80>>]
directions == <<"LONG", "SHORT">>
comparisons == <<"<", ">">>
regimes == <<"STRONG_UPTREND", "WEAK_UPTREND", "RANGING",
             "WEAK_DOWNTREND", "STRONG_DOWNTREND", "ALL">>
sessions == <<"asia", "london", "newyork", "overlap", "ALL">>

\* the patterns of a list of candidates, in the order of the list
Concat(parts) ==
    LET found[i \in 0..Len(parts)] ==
            IF i = 0 THEN <<>> ELSE found[i - 1] \o parts[i]
    IN  found[Len(parts)]

Collect(parts) == Concat(parts \o <<>>)

\* the gates of one candidate and the pattern it becomes: <<>> or <<pattern>>
gated(family, key, conditions, direction, st, min_n, regime, session, bonus) ==
    IF st.n < min_n THEN <<>>
    ELSE IF ~ passes_rates(st) THEN <<>>
    ELSE << DiscoveredPattern(family, key, conditions, direction, st,
                              regime, session, bonus) >>

single_filtered(filtered, indicator, threshold, direction, comparison) ==
    gated("single", <<indicator, comparison, direction>>,
          << Cond(indicator, comparison, threshold) >>, direction,
          pattern_stats(filtered), miner_min_sample_size,
          best_key(filtered, "regime"), best_key(filtered, "session"), 0)

\* one candidate of mine_single_indicator_patterns
single_candidate(data, indicator, threshold, direction, comparison) ==
    single_filtered(SelectSeq(data, LAMBDA d :
                        /\ Compare(Get(d, indicator), comparison, threshold)
                        /\ d.direction = direction),
                    indicator, threshold, direction, comparison)

mine_single_indicator_patterns(data) ==
    Collect([i \in 1..Len(indicators) |->
      Collect([t \in 1..Len(indicator_thresholds[indicators[i]]) |->
        Collect([d \in 1..Len(directions) |->
          Collect([c \in 1..Len(comparisons) |->
            single_candidate(data, indicators[i],
                             indicator_thresholds[indicators[i]][t],
                             directions[d], comparisons[c])])])])])

combos ==
    << [name |-> "Oversold Stoch + Bullish RSI", direction |-> "LONG",
        conditions |-> << Cond("stoch_k", "<", 25), Cond("rsi", ">", 45) >>],
       [name |-> "Overbought Stoch + Bearish RSI", direction |-> "SHORT",
        conditions |-> << Cond("stoch_k", ">", 75), Cond("rsi", "<", 55) >>],
       [name |-> "Strong Trend + RSI Momentum Long", direction |-> "LONG",
        conditions |-> << Cond("adx", ">", 30), Cond("rsi", ">", 55) >>],
       [name |-> "Strong Trend + RSI Momentum Short", direction |-> "SHORT",
        conditions |-> << Cond("adx", ">", 30), Cond("rsi", "<", 45) >>],
       [name |-> "Extreme Oversold", direction |-> "LONG",
        conditions |-> << Cond("stoch_k", "<", 20), Cond("rsi", "<", 30) >>],
       [name |-> "Extreme Overbought", direction |-> "SHORT",
        conditions |-> << Cond("stoch_k", ">", 80), Cond("rsi", ">", 70) >>] >>

combo_filtered(filtered, combo) ==
    gated("combo", <<combo.name, combo.direction>>, combo.conditions,
          combo.direction, pattern_stats(filtered), miner_min_sample_size,
          best_key(filtered, "regime"), best_key(filtered, "session"), 10)

combo_candidate(data, combo) ==
    combo_filtered(SelectSeq(data, LAMBDA d :
                        /\ \A k \in 1..Len(combo.conditions) :
                              Compare(Get(d, combo.conditions[k].indicator),
                                      combo.conditions[k].operator,
                                      combo.conditions[k].value)
                        /\ d.direction = combo.direction),
                   combo)

mine_combo_patterns(data) ==
    Collect([i \in 1..Len(combos) |-> combo_candidate(data, combos[i])])

\* the conditions of a regime pattern and of a session pattern; the optimal
\* values are bare numbers, in tenths (adx_min in whole units)
regime_conditions(regime, st) ==
    << Cond("regime", "==", regime),
       Cond("rsi_optimal", "", mean_of(st, "rsi")),
       Cond("stoch_optimal", "", mean_of(st, "stoch_k")),
       Cond("adx_optimal", "", mean_of(st, "adx")) >>

session_conditions(session, st) ==
    << Cond("session", "==", session),
       Cond("adx_min", "", RoundDiv(st.adx - 5 * st.wins, st.wins)) >>

group_direction(family, value, direction, st) ==
    gated(family, <<value, direction>>,
          IF family = "regime" THEN regime_conditions(value, st)
          ELSE session_conditions(value, st),
          direction, st, miner_min_sample_size \div 2,
          IF family = "regime" THEN value ELSE "ALL",
          IF family = "session" THEN value ELSE "ALL", 0)

\* the loop shared by mine_regime_patterns and mine_session_patterns: the
\* rows of the regime (session) are gated by min_sample_size, those of one
\* direction among them by min_sample_size // 2
group_rows(family, value, group_data) ==
    IF Rows(group_data) < miner_min_sample_size THEN <<>>
    ELSE Collect([i \in 1..Len(directions) |->
            group_direction(family, value, directions[i],
                pattern_stats(SelectSeq(group_data,
                    LAMBDA d : d.direction = directions[i])))])

group_candidates(family, field, value, data) ==
    IF value = "ALL" THEN <<>>
    ELSE group_rows(family, value, SelectSeq(data, LAMBDA d : d[field] = value))

mine_regime_patterns(data) ==
    Collect([i \in 1..Len(regimes) |->
        group_candidates("regime", "regime", regimes[i], data)])

mine_session_patterns(data) ==
    Collect([i \in 1..Len(sessions) |->
        group_candidates("session", "session", sessions[i], data)])

\* list.sort(key=confidence, reverse=True): stable, largest first
\* the place of the i-th element after the sort: behind every element of a
\* larger key and every earlier element of the same key
place_of(keys, i) ==
    1 + Cardinality({j \in 1..Len(keys) :
            \/ keys[j] > keys[i]
            \/ keys[j] = keys[i] /\ j < i})

placed(ps, places) ==
    [r \in 1..Len(ps) |-> ps[CHOOSE i \in 1..Len(ps) : places[i] = r]] \o <<>>

stable_desc(ps, keys) ==
    placed(ps, [i \in 1..Len(ps) |-> place_of(keys, i)] \o <<>>)

sort_by_confidence(ps) ==
    stable_desc(ps, [i \in 1..Len(ps) |-> ps[i].confidence] \o <<>>)

all_sorted(single_patterns, combo_patterns, regime_patterns, session_patterns) ==
    sort_by_confidence(single_patterns \o combo_patterns
                       \o regime_patterns \o session_patterns)

mine_all_patterns(data) ==
    all_sorted(mine_single_indicator_patterns(data), mine_combo_patterns(data),
               mine_regime_patterns(data), mine_session_patterns(data))

InitPM ==
    /\ historical_data = <<>>
    /\ discovered_patterns = <<>>

\* what mine_all_patterns returns on each data set, computed once
mined_table == { <<data, mine_all_patterns(data)>> : data \in DataSets }
mined(data) == (CHOOSE e \in mined_table : e[1] = data)[2]

\* mine_all_patterns(): loads the data the stores hold and mines it
MineAllPatterns(data) ==
    /\ historical_data' = data
    /\ discovered_patterns' = mined(data)
    /\ UNCHANGED not_pm

NextPM == \E data \in DataSets : MineAllPatterns(data)

(***************************************************************************)
(*                   RULE EVOLUTION (rule_evolution.py)                    *)
(*                                                                         *)
(* fitness is in hundredths.  A rule's rule_id, name, weight, win_rate,    *)
(* profit_factor, parent_ids, mutations and created_at are left out;       *)
(* `origin` records which constructor made the rule.  The random draws of  *)
(* _create_random_rule, crossover and mutate are taken from small sets.    *)
(***************************************************************************)

\* most generations evolved
MaxGenerations == 1

elite_count == 5          \* self.elite_count
tournament_size == 5      \* select_parents
\* the constructor's parameter: one rule bred a generation
population_size == elite_count + 1
TopPatterns == 30         \* get_top_patterns(30)
MinMatches == 10          \* `if len(filtered) < 10`
PenaltyMatches == 20      \* `if len(filtered) < 20`

indicator_ranges ==
    [rsi |-> <<10, 90>>, stoch_k |-> <<5, 95>>, adx |-> <<10, 60>>,
     atr_percentile |-> <<10, 90>>]

TradingRule(conditions, regime_filter, session_filter, direction, total_trades, fitness, origin) ==
    [conditions |-> conditions, regime_filter |-> regime_filter,
     session_filter |-> session_filter, direction |-> direction,
     total_trades |-> total_trades, fitness |-> fitness, origin |-> origin]

\* the data sets the evolution is run on
EvolutionData ==
    { << LongWins, LongLosses, RangingWins >>,
      << ShortWins, ShortLosses >>,
      << LongWins, AsiaShortLosses >> }

\* the rules _create_random_rule draws
RandomRules ==
    { TradingRule(<< Cond("rsi", ">", 50) >>, None, Some("london"), "LONG",
                  0, 0, "random"),
      TradingRule(<< Cond("stoch_k", "<", 30), Cond("adx", ">", 40) >>,
                  Some("RANGING"), None, "LONG", 0, 0, "random") }

\* a condition that is a bare number: condition.get raises AttributeError
IsBare(c) == c.operator = ""

\* one step of the loop over rule.conditions.items()
Holds(d, c) ==
    IF c.operator = "<" THEN Get(d, c.indicator) < c.value
    ELSE IF c.operator = ">" THEN Get(d, c.indicator) > c.value
    ELSE IF c.operator = "==" THEN c.indicator \in DOMAIN d /\ d[c.indicator] = c.value
    ELSE TRUE

\* the rows evaluate_fitness keeps for a rule
rule_filtered(rule, data) ==
    SelectSeq(data, LAMBDA d :
        /\ rule.regime_filter # None => d.regime = Val(rule.regime_filter)
        /\ rule.session_filter # None => d.session = Val(rule.session_filter)
        /\ \A k \in 1..Len(rule.conditions) : Holds(d, rule.conditions[k])
        /\ d.direction = rule.direction)

Matches(rule, data) == Rows(rule_filtered(rule, data))

\* q + num / den rounded half to even, for 0 <= num < den
RoundUp(q, num, den) ==
    IF 2 * num > den THEN q + 1
    ELSE IF 2 * num < den THEN q
    ELSE IF q % 2 = 0 THEN q ELSE q + 1

\* a / m + b / n, rounded
RoundSum(a, m, b, n) ==
    RoundUp(a \div m + b \div n + ((a % m) * n + (b % n) * m) \div (m * n),
            ((a % m) * n + (b % n) * m) % (m * n), m * n)

\* ((win_rate - 50) * 2 + (profit_factor - 1) * 20 + min(n / 5, 20)) * scale,
\* where total_loss = abs(sum of the pnl of the losses) if losses else 0.01
\* and scale is 0.5 below 20 rows; halve == 2 stands for scale 0.5
raw_fitness(t, halve) ==
    LET pf_num == IF t.losses = 0 THEN t.profit * 100 ELSE t.profit
        pf_den == IF t.losses = 0 THEN 1 ELSE Abs(t.loss)
    IN  RoundSum(20000 * t.wins, halve * t.n, 2000 * pf_num, halve * pf_den)
        + (Min(20 * t.n, 2000) - 12000) \div halve

\* evaluate_fitness(rule, data): whether it raises, and the rule afterwards
evaluate_tally(rule, t) ==
    IF \E k \in 1..Len(rule.conditions) : IsBare(rule.conditions[k])
    THEN [raised |-> TRUE, rule |-> rule]
    ELSE IF t.n < MinMatches THEN [raised |-> FALSE, rule |-> rule]
    ELSE IF t.losses > 0 /\ t.loss = 0 THEN [raised |-> TRUE, rule |-> rule]
    ELSE [raised |-> FALSE,
          rule |-> [rule EXCEPT
                      !.total_trades = t.n,
                      !.fitness = Max(0, raw_fitness(t,
                                    IF t.n < PenaltyMatches THEN 2 ELSE 1))]]

evaluate_fitness(rule, data) == evaluate_tally(rule, TallyOf(rule_filtered(rule, data)))

\* list.sort(key=fitness, reverse=True)
sort_by_fitness(rules) ==
    stable_desc(rules, [i \in 1..Len(rules) |-> rules[i].fitness] \o <<>>)

\* evaluate_population(data): the rules are evaluated in order and then
\* sorted; an exception leaves the rules before it evaluated, nothing sorted
evaluated_all(results) ==
    LET raising == {i \in 1..Len(results) : results[i].raised}
        reached(i) == \A j \in raising : i < j
    IN  IF raising = {}
        THEN [raised |-> FALSE,
              population |-> sort_by_fitness(
                  [i \in 1..Len(results) |-> results[i].rule] \o <<>>)]
        ELSE [raised |-> TRUE,
              population |->
                  [i \in 1..Len(results) |->
                      IF reached(i) THEN results[i].rule ELSE results[i].was] \o <<>>]

evaluate_population(rules, data) ==
    evaluated_all([i \in 1..Len(rules) |->
        [raised |-> evaluate_fitness(rules[i], data).raised,
         rule |-> evaluate_fitness(rules[i], data).rule,
         was |-> rules[i]]] \o <<>>)

\* initialize_from_patterns(patterns): one rule per pattern, up to
\* population_size, its fitness the pattern's confidence
seed_rule(pattern) ==
    TradingRule(pattern.conditions,
                IF pattern.best_regime # "ALL" THEN Some(pattern.best_regime) ELSE None,
                IF pattern.best_session # "ALL" THEN Some(pattern.best_session) ELSE None,
                pattern.direction, pattern.sample_size,
                10 * pattern.confidence, "pattern")

seed_rules(patterns) ==
    [i \in 1..Min(Len(patterns), population_size) |-> seed_rule(patterns[i])] \o <<>>

\* get_top_patterns(n)
get_top_patterns(patterns, n) == SubSeq(patterns, 1, Min(n, Len(patterns)))

\* select_parents: the rules that win some tournament of tournament_size
Winners(rules) ==
    {i \in 1..Len(rules) :
        \E S \in SUBSET (1..Len(rules)) :
            /\ Cardinality(S) = tournament_size
            /\ i \in S
            /\ \A j \in S : rules[i].fitness >= rules[j].fitness}

\* which parent each random.choice of crossover takes
Picks == [operator : {1, 2}, regime : {1, 2}, session : {1, 2}]

IndicatorsOf(rule) == {rule.conditions[k].indicator : k \in 1..Len(rule.conditions)}
ConditionOn(rule, indicator) ==
    rule.conditions[CHOOSE k \in 1..Len(rule.conditions) :
                        rule.conditions[k].indicator = indicator]

crossover(parent1, parent2, pick) ==
    LET merged(c) ==
            IF c.indicator \in IndicatorsOf(parent2)
            THEN Cond(c.indicator,
                      IF pick.operator = 1 THEN c.operator
                      ELSE ConditionOn(parent2, c.indicator).operator,
                      (c.value + ConditionOn(parent2, c.indicator).value) \div 2)
            ELSE c
        shared == [k \in 1..Len(parent1.conditions) |->
                      merged(parent1.conditions[k])] \o <<>>
        others == SelectSeq(parent2.conditions,
                            LAMBDA c : c.indicator \notin IndicatorsOf(parent1))
    IN  TradingRule(shared \o others,
            IF pick.regime = 1 THEN parent1.regime_filter ELSE parent2.regime_filter,
            IF pick.session = 1 THEN parent1.session_filter ELSE parent2.session_filter,
            IF parent1.fitness > parent2.fitness THEN parent1.direction
            ELSE parent2.direction,
            0, 0, "crossover")

\* the draws of mutate: the change of the first condition's value, whether
\* its operator flips, and the new regime filter if one is drawn
Mutation(delta, flip, regime) == [delta |-> delta, flip |-> flip, regime |-> regime]
Mutations ==
    { Mutation(0, FALSE, None), Mutation(10, FALSE, None), Mutation(-10, FALSE, None),
      Mutation(0, TRUE, None), Mutation(0, FALSE, Some(Some("RANGING"))),
      Mutation(0, FALSE, Some(None)) }

Clamp(indicator, value) ==
    LET range == IF indicator \in DOMAIN indicator_ranges
                 THEN indicator_ranges[indicator] ELSE <<0, 100>>
    IN  Max(range[1], Min(range[2], value))

\* mutate(rule): a deep copy, fitness and total_trades included
mutate(rule, m) ==
    [rule EXCEPT
        !.conditions = [k \in 1..Len(rule.conditions) |->
            IF k = 1
            THEN Cond(rule.conditions[k].indicator,
                      IF m.flip
                      THEN (IF rule.conditions[k].operator = "<" THEN ">" ELSE "<")
                      ELSE rule.conditions[k].operator,
                      IF m.delta # 0
                      THEN Clamp(rule.conditions[k].indicator,
                                 rule.conditions[k].value + m.delta)
                      ELSE rule.conditions[k].value)
            ELSE rule.conditions[k]] \o <<>>,
        !.regime_filter = IF m.regime = None THEN @ ELSE Val(m.regime),
        !.origin = "mutation"]

\* the rules one turn of the breeding loop of evolve_generation can append
Offspring(rules) ==
    { crossover(rules[i], rules[j], pick) :
        i \in Winners(rules), j \in Winners(rules), pick \in Picks }
    \cup { mutate(rules[i], m) :
        i \in 1..Min(Len(rules), population_size \div 2), m \in Mutations }
    \cup RandomRules

InitRE ==
    /\ population = <<>>
    /\ generation = 0
    /\ evolution_data = <<>>
    /\ re_last = [op |-> "init", status |-> "done"]

\* StrategyFactory.run_evolution up to the call of RuleEvolution.run_evolution:
\* the top patterns of the miner seed the population, random rules fill it
\* up, and the data of the miner is the data the evolution is run on
InitializeFromPatterns(data, fill) ==
    /\ Len(fill) = population_size
                   - Len(seed_rules(get_top_patterns(mined(data), TopPatterns)))
    /\ population' = seed_rules(get_top_patterns(mined(data), TopPatterns)) \o fill
    /\ evolution_data' = data
    /\ re_last' = [op |-> "initialize", status |-> "done"]
    /\ UNCHANGED <<generation, not_re>>

\* evaluate_population(data)
EvaluatePopulation ==
    /\ population' = evaluate_population(population, evolution_data).population
    /\ re_last' = [op |-> "evaluate",
                   status |-> IF evaluate_population(population, evolution_data).raised
                              THEN "raised" ELSE "done"]
    /\ UNCHANGED <<generation, evolution_data, not_re>>

\* evolve_generation(data): evaluates, keeps the elite and breeds the rest;
\* max() of an empty population raises
Breed(ev) ==
    IF ev.raised \/ ev.population = <<>>
    THEN /\ population' = ev.population
         /\ re_last' = [op |-> "evolve", status |-> "raised"]
    ELSE \E bred \in [1..(population_size - Min(elite_count, Len(ev.population)))
                        -> Offspring(ev.population)] :
            /\ population' = SubSeq(ev.population, 1,
                                    Min(elite_count, Len(ev.population))) \o bred
            /\ re_last' = [op |-> "evolve", status |-> "done"]

EvolveGeneration ==
    /\ generation < MaxGenerations
    /\ generation' = generation + 1
    /\ Breed(evaluate_population(population, evolution_data))
    /\ UNCHANGED <<evolution_data, not_re>>

NextRE ==
    \/ \E data \in EvolutionData :
        \E fill \in UNION { [1..n -> RandomRules] : n \in 0..population_size } :
            InitializeFromPatterns(data, fill)
    \/ EvaluatePopulation
    \/ EvolveGeneration

(***************************************************************************)
(*                       AUTO-TUNER (auto_tuner.py)                        *)
(*                                                                         *)
(* A fitness is the exact fraction num / den in lowest terms, den > 0.     *)
(* atr_stop_mult and atr_tp_mult are in tenths, an improvement in          *)
(* hundredths of a percent.  The win_rate, profit_factor and sample_size   *)
(* of an OptimizationResult and the timestamp of a history entry are left  *)
(* out.                                                                    *)
(***************************************************************************)

\* most calls of run_full_optimization
MaxTunings == 3

MinFiltered == 20         \* `if len(filtered) < 20`
MinTrades == 10           \* `if total_trades < 10`
MinGroupRows == 50        \* `if len(regime_data) < 50`
ApplyGlobal == 1000       \* `if result.improvement > 10`
ApplyGroup == 500         \* `if result.improvement > 5`

param_names ==
    << "stoch_oversold", "stoch_overbought", "rsi_oversold", "rsi_overbought",
       "min_score_long", "min_score_short", "atr_stop_mult", "atr_tp_mult",
       "adx_min_trend" >>

param_ranges ==
    [stoch_oversold |-> <<10, 15, 20, 25, 30>>,
     stoch_overbought |-> <<65, 70, 75, 80, 85, 90>>,
     rsi_oversold |-> <<20, 25, 30, 35>>,
     rsi_overbought |-> <<60, 65, 70, 75>>,
     min_score_long |-> <<50, 55, 60, 65, 70, 75>>,
     min_score_short |-> <<50, 55, 60, 65, 70, 75>>,
     atr_stop_mult |-> <<15, 20, 25, 30>>,
     atr_tp_mult |-> <<20, 25, 30, 35, 40>>,
     adx_min_trend |-> <<15, 20, 25, 30, 35>>]

tuner_regimes == <<"STRONG_UPTREND", "WEAK_UPTREND", "RANGING",
                   "WEAK_DOWNTREND", "STRONG_DOWNTREND">>
tuner_sessions == <<"asia", "london", "newyork", "overlap">>
regime_params == <<"stoch_oversold", "stoch_overbought", "min_score_long", "adx_min_trend">>
session_params == <<"stoch_oversold", "stoch_overbought", "min_score_long">>

\* TuningConfig(); min_score is the attribute run_full_optimization sets for
\* the keys of min_score_long and min_score_short, absent at first
TuningConfig ==
    [stoch_oversold |-> 20, stoch_overbought |-> 80, rsi_oversold |-> 30,
     rsi_overbought |-> 70, min_score_long |-> 60, min_score_short |-> 60,
     atr_stop_mult |-> 20, atr_tp_mult |-> 30, adx_min_trend |-> 25,
     regime_adjustments |-> <<>>, session_adjustments |-> <<>>,
     min_score |-> None]

\* the runs of rows the tuner's data sets are made of
QuietWins == Row("WEAK_UPTREND", "london", "LONG", 50, 50, 20, "WIN", 5, 30)
QuietLosses == Row("RANGING", "newyork", "LONG", 50, 50, 20, "LOSS", -5, 5)
HighRsiLosses == Row("RANGING", "asia", "LONG", 68, 50, 20, "LOSS", -5, 10)
TrendLosses == Row("RANGING", "asia", "LONG", 65, 50, 27, "LOSS", -5, 10)
\* rows on which rsi_overbought 60 gains exactly 10% for LONG (fitness 100
\* with all of them traded, 110 without the rows of rsi 68)
CalmWins == Row("WEAK_UPTREND", "london", "LONG", 50, 50, 20, "WIN", 2, 20)
CalmLosses == Row("WEAK_UPTREND", "london", "LONG", 50, 50, 20, "LOSS", -2, 5)
HighRsiWins == Row("RANGING", "asia", "LONG", 68, 50, 20, "WIN", 1, 20)
HighRsiFew == Row("RANGING", "asia", "LONG", 68, 50, 20, "LOSS", -2, 5)
\* 50 rows of one regime on which stoch_overbought 85 gains exactly 5%
\* (fitness 80 with all of them traded, 84 without the rows of rsi 25), and
\* 5 more losing rows with which it gains more
RangeWins == Row("RANGING", "asia", "LONG", 50, 50, 20, "WIN", 1, 15)
RangeLosses == Row("RANGING", "asia", "LONG", 50, 50, 20, "LOSS", -1, 5)
HotStochWins == Row("RANGING", "london", "LONG", 25, 82, 20, "WIN", 3, 20)
HotStochLosses == Row("RANGING", "london", "LONG", 25, 82, 20, "LOSS", -2, 10)
HotStochMore == Row("RANGING", "newyork", "LONG", 25, 82, 20, "LOSS", -2, 5)

TunerData ==
    { << QuietWins, QuietLosses, HighRsiLosses, TrendLosses >>,
      << QuietWins, QuietLosses, HighRsiLosses >>,
      << QuietWins, QuietLosses >>,
      << ShortWins, ShortLosses >>,
      << ShortWins, ShortLosses, QuietWins, HighRsiLosses >>,
      << CalmWins, CalmLosses, HighRsiWins, HighRsiFew >>,
      << RangeWins, RangeLosses, HotStochWins, HotStochLosses >>,
      << RangeWins, RangeLosses, HotStochWins, HotStochLosses, HotStochMore >> }

RECURSIVE GCD(_, _)
GCD(a, b) == IF b = 0 THEN a ELSE GCD(b, a % b)

Frac(num, den) ==
    [num |-> num \div GCD(Abs(num), den), den |-> den \div GCD(Abs(num), den)]
ZeroFitness == [num |-> 0, den |-> 1]
Less(a, b) == a.num * b.den < b.num * a.den

\* whether evaluate_config counts the row as a trade taken
TradeTaken(tuning, d, direction) ==
    \/ IF direction = Some("LONG") THEN d.stoch_k < tuning.stoch_oversold
       ELSE d.stoch_k > tuning.stoch_overbought
    \/ IF direction = Some("LONG") THEN d.rsi < tuning.rsi_overbought
       ELSE d.rsi > tuning.rsi_oversold
    \/ d.adx >= tuning.adx_min_trend

NoTrades == [wins |-> 0, losses |-> 0, total_profit |-> 0, total_loss |-> 0]

AddTrade(t, d) ==
    IF d.outcome = "WIN"
    THEN [t EXCEPT !.wins = @ + d.count, !.total_profit = @ + Abs(d.pnl) * d.count]
    ELSE [t EXCEPT !.losses = @ + d.count, !.total_loss = @ + Abs(d.pnl) * d.count]

TradesOf(taken) ==
    LET acc[i \in 0..Len(taken)] ==
            IF i = 0 THEN NoTrades ELSE AddTrade(acc[i - 1], taken[i])
    IN  acc[Len(taken)]

\* (win_rate - 50) * 2 + (profit_factor - 1) * 15 + min(total_trades / 5, 20),
\* profit_factor being 0 when nothing was lost
config_fitness(t, total, loss) ==
    IF total < MinTrades THEN ZeroFitness
    ELSE Frac(1000 * t.wins * loss - 500 * total * loss
              + (IF t.total_loss > 0 THEN 75 * t.total_profit * total ELSE 0)
              - 75 * total * loss + Min(total, 100) * total * loss,
              5 * total * loss)

tuner_filtered(data, direction, regime, session) ==
    SelectSeq(data, LAMBDA d :
        /\ regime # None => d.regime = Val(regime)
        /\ session # None => d.session = Val(session)
        /\ direction # None => d.direction = Val(direction))

trades_fitness(t) ==
    config_fitness(t, t.wins + t.losses, IF t.total_loss > 0 THEN t.total_loss ELSE 1)

filtered_fitness(tuning, filtered, direction) ==
    IF Rows(filtered) < MinFiltered THEN ZeroFitness
    ELSE trades_fitness(TradesOf(SelectSeq(filtered,
                            LAMBDA d : TradeTaken(tuning, d, direction))))

\* evaluate_config(config, data, direction, regime, session)["fitness"]
evaluate_config(tuning, data, direction, regime, session) ==
    filtered_fitness(tuning, tuner_filtered(data, direction, regime, session), direction)

\* round((best - base) / base * 100, 2) if base > 0 else 0
improvement_of(best, base) ==
    IF base.num > 0
    THEN RoundDiv(10000 * (best.num * base.den - base.num * best.den),
                  best.den * base.num)
    ELSE 0

\* the grid search: the first value of the largest fitness
best_index(fitnesses) ==
    CHOOSE k \in 1..Len(fitnesses) :
        /\ \A j \in 1..Len(fitnesses) : ~ Less(fitnesses[k], fitnesses[j])
        /\ \A j \in 1..(k - 1) : Less(fitnesses[j], fitnesses[k])

OptimizationResult(param, direction, grid, fitnesses, k, base) ==
    [parameter_name |-> param, direction |-> direction,
     optimal_value |-> grid[k], improvement |-> improvement_of(fitnesses[k], base)]

searched(param, direction, grid, fitnesses, base) ==
    OptimizationResult(param, direction, grid, fitnesses, best_index(fitnesses), base)

\* optimize_parameter(param_name, data, direction)
optimize_parameter(tuning, param, data, direction) ==
    searched(param, direction, param_ranges[param],
             [k \in 1..Len(param_ranges[param]) |->
                 evaluate_config([tuning EXCEPT ![param] = param_ranges[param][k]],
                                 data, direction, None, None)] \o <<>>,
             evaluate_config(tuning, data, direction, None, None))

\* optimize_all_parameters(data): for each parameter the LONG and then the
\* SHORT result, those of a positive improvement
optimize_all_parameters(tuning, data) ==
    SelectSeq([k \in 1..2 * Len(param_names) |->
                  optimize_parameter(tuning, param_names[(k + 1) \div 2], data,
                                     IF k % 2 = 1 THEN Some("LONG") ELSE Some("SHORT"))]
              \o <<>>,
              LAMBDA r : r.improvement > 0)

\* key.replace("_long", "").replace("_short", "") of the key param_direction
AttributeOf(param) ==
    IF param \in {"min_score_long", "min_score_short"} THEN "min_score" ELSE param

\* the results are applied in order, so the last one over 10% stays
apply_results(tuning, results) ==
    LET applied(name) == {k \in 1..Len(results) :
                            /\ results[k].improvement > ApplyGlobal
                            /\ AttributeOf(results[k].parameter_name) = name}
        last(S) == CHOOSE k \in S : \A j \in S : j <= k
    IN  [name \in DOMAIN tuning |->
            IF applied(name) = {} THEN tuning[name]
            ELSE IF name = "min_score" THEN Some(results[last(applied(name))].optimal_value)
            ELSE results[last(applied(name))].optimal_value]

\* optimize_for_regime / optimize_for_session: None, or a fresh TuningConfig
\* with the parameters that gain over 5% on the rows of the group
group_config(tuning, group_data, params) ==
    IF Rows(group_data) < MinGroupRows THEN None
    ELSE Some([name \in DOMAIN TuningConfig |->
            IF /\ \E k \in 1..Len(params) : params[k] = name
               /\ optimize_parameter(tuning, name, group_data, None).improvement
                    > ApplyGroup
            THEN optimize_parameter(tuning, name, group_data, None).optimal_value
            ELSE TuningConfig[name]])

optimize_for_regime(tuning, regime, data) ==
    group_config(tuning, SelectSeq(data, LAMBDA d : d.regime = regime), regime_params)

optimize_for_session(tuning, session, data) ==
    group_config(tuning, SelectSeq(data, LAMBDA d : d.session = session), session_params)

\* the adjustments after the loop over the groups: a group is written when
\* its optimization returns a config, and kept as it was otherwise
adjusted(old, groups, configs) ==
    LET written == {k \in 1..Len(groups) : configs[k] # None}
    IN  [g \in {groups[k] : k \in written} \cup DOMAIN old |->
            IF \E k \in written : groups[k] = g
            THEN Val(configs[CHOOSE k \in written : groups[k] = g])
            ELSE old[g]]

with_adjustments(tuning, data) ==
    [tuning EXCEPT
        !.regime_adjustments =
            adjusted(@, tuner_regimes,
                     [k \in 1..Len(tuner_regimes) |->
                        optimize_for_regime(tuning, tuner_regimes[k], data)] \o <<>>),
        !.session_adjustments =
            adjusted(@, tuner_sessions,
                     [k \in 1..Len(tuner_sessions) |->
                        optimize_for_session(tuning, tuner_sessions[k], data)] \o <<>>)]

tuned(tuning, data, global_results) ==
    [config |-> with_adjustments(apply_results(tuning, global_results), data),
     global_improvements |-> Len(global_results),
     global_results |-> global_results]

\* run_full_optimization(data)
run_full_optimization(tuning, data) ==
    tuned(tuning, data, optimize_all_parameters(tuning, data))

history_entry(data, result) ==
    [data_points |-> Rows(data),
     global_improvements |-> result.global_improvements,
     regime_optimizations |-> Cardinality(DOMAIN result.config.regime_adjustments),
     session_optimizations |-> Cardinality(DOMAIN result.config.session_adjustments)]

InitAT ==
    /\ current_config = TuningConfig
    /\ optimization_history = <<>>
    /\ tuner_runs = <<>>

Tuned(data, result) ==
    /\ current_config' = result.config
    /\ optimization_history' = Append(optimization_history, history_entry(data, result))
    /\ tuner_runs' = Append(tuner_runs,
            [data |-> data, before |-> current_config,
             global_results |-> result.global_results, config |-> result.config])

RunFullOptimization(data) ==
    /\ Len(optimization_history) < MaxTunings
    /\ Tuned(data, run_full_optimization(current_config, data))
    /\ UNCHANGED not_at

NextAT == \E data \in TunerData : RunFullOptimization(data)

(***************************************************************************)
(*                   STRATEGY FACTORY: the operations                      *)
(***************************************************************************)

\* the historical data load_historical_data hands to the factory's tuner
LoopData == {<<QuietWins, QuietLosses, HighRsiLosses, TrendLosses>>}

InitSF ==
    /\ versions = <<>>
    /\ current_version = None
    /\ versions_file = None
    /\ production_config = None
    /\ optimized_config = None
    /\ sf_last = [op |-> "init", status |-> "success", gate |-> FALSE,
                  deployed |-> FALSE, vid |-> 0, wr |-> 0, pre_current |-> None,
                  pre_wr |-> None, pre_file |-> None, pre_active |-> {},
                  pre_config |-> TuningConfig, pre_optimized |-> None]

\* factory.create_version(...) called directly
CreateVersion(wr, fault) ==
    /\ Len(versions) < MaxVersions
    /\ LET f == create_version(Factory, wr, fault)
       IN  /\ SetFactory(f)
           /\ sf_last' = Last("create", IF f.raised THEN "error" ELSE "success",
                              FALSE, FALSE, Len(f.versions), wr)
    /\ UNCHANGED <<optimized_config, not_sf>>

\* factory.deploy_version(version_id) called directly
DeployVersion(id, fault) ==
    /\ LET f == deploy_version(Factory, id, fault)
       IN  /\ SetFactory(f)
           /\ sf_last' = Last("deploy",
                              IF VersionIndex(versions, id) = None THEN "notfound"
                              ELSE IF f.raised THEN "error" ELSE "success",
                              FALSE, FALSE, id, 0)
    /\ UNCHANGED <<optimized_config, not_sf>>

\* run_optimization within the iteration: the factory's tuner runs on the
\* loaded data (result is what run_full_optimization returns for it) and
\* export_config writes optimized_config.json; a fault in an earlier phase
\* or in loading the data leaves the tuner as it was
RunOptimization(data, result, fault) ==
    IF fault \in {"discovery", "evolution", "optimization"}
    THEN UNCHANGED <<current_config, optimization_history, optimized_config>>
    ELSE /\ current_config' = result.config
         /\ optimization_history' =
                Append(optimization_history, history_entry(data, result))
         /\ optimized_config' =
                IF fault = "export_config" THEN optimized_config
                ELSE Some(result.config)

\* one iteration of factory.run_the_loop
RunTheLoop(data, result, wr, fault) ==
    /\ Len(versions) < MaxVersions
    /\ Len(optimization_history) < MaxTunings
    /\ LET r == loop_iteration(Factory, wr, fault)
       IN  /\ SetFactory(r.f)
           /\ sf_last' = Last("iteration", r.status, r.gate, r.deployed,
                              Len(r.f.versions), wr)
    /\ RunOptimization(data, result, fault)
    /\ UNCHANGED not_loop

\* the iterations on one data set
LoopOn(data, result) ==
    \E wr \in WinRates, fault \in LoopFaults : RunTheLoop(data, result, wr, fault)

\* a new StrategyFactory on the same data directory, with a new AutoTuner
Reload ==
    /\ LET l == load_versions(versions_file)
       IN  /\ versions' = l.versions
           /\ current_version' = l.current_version
    /\ sf_last' = Last("reload", "success", FALSE, FALSE, 0, 0)
    /\ current_config' = TuningConfig
    /\ optimization_history' = <<>>
    /\ UNCHANGED <<versions_file, production_config, optimized_config, not_loop>>

NextSF ==
    \/ \E wr \in WinRates, fault \in {"none", "create_save"} : CreateVersion(wr, fault)
    \/ \E id \in 1..(MaxVersions + 1), fault \in DeployFaults : DeployVersion(id, fault)
    \/ \E data \in LoopData : LoopOn(data, run_full_optimization(current_config, data))
    \/ Reload

(***************************************************************************)
(*                           SIGNAL GENERATOR                              *)
(*                                                                         *)
(* analysis/signals.py.  The frame handed to generate_signal is modelled   *)
(* by what the generator reads of it: the Close, ATR and Stoch_K of the    *)
(* last bar and the EMA_9 and EMA_21 of the last two bars.  Close is in    *)
(* whole points, ATR in tenths of a point, the ATR multipliers in tenths,  *)
(* so stop loss and take profit are in hundredths of a point.  The         *)
(* criteria are counted in halves.  risk_reward_ratio is an exact          *)
(* fraction.  The timestamp, regime name and reasons of a TradingSignal    *)
(* are left out.                                                           *)
(***************************************************************************)

min_strong == 4
min_medium == 3
min_weak == 2
min_pattern_success == 60
atr_stop == 20           \* atr_stop_multiplier 2.0, in tenths
atr_tp == 30             \* atr_tp_multiplier 3.0, in tenths
StochLow == 30           \* `if stoch < 30`
StochHigh == 70          \* `if stoch > 70`
StochMid == 50           \* `elif stoch < 50`, `elif stoch > 50`

\* the frames, regimes, pattern analyses and sentiments handed in
Closes == {100, 2000}
Atrs == {None, Some(0), Some(15)}
Emas == { [EMA_9_prev |-> 10, EMA_21_prev |-> 11, EMA_9 |-> 12, EMA_21 |-> 11],
          [EMA_9_prev |-> 12, EMA_21_prev |-> 11, EMA_9 |-> 12, EMA_21 |-> 11],
          [EMA_9_prev |-> 12, EMA_21_prev |-> 11, EMA_9 |-> 10, EMA_21 |-> 11],
          [EMA_9_prev |-> 10, EMA_21_prev |-> 11, EMA_9 |-> 10, EMA_21 |-> 11],
          [EMA_9_prev |-> 11, EMA_21_prev |-> 11, EMA_9 |-> 11, EMA_21 |-> 11] }
Stochs == {20, 40, 60, 80}
TrendStates == {"STRONG_UPTREND", "WEAK_UPTREND", "RANGING",
                "WEAK_DOWNTREND", "STRONG_DOWNTREND"}
PatternAnalyses ==
    { [bullish_success_rate |-> 70, bearish_success_rate |-> 50],
      [bullish_success_rate |-> 50, bearish_success_rate |-> 70],
      [bullish_success_rate |-> 60, bearish_success_rate |-> 60] }
MarketSentiments == {"RISK_ON", "RISK_OFF", "NEUTRAL", "UNCERTAIN"}

Frame(close, atr, ema, stoch) ==
    [Close |-> close, ATR |-> atr, Stoch_K |-> stoch,
     EMA_9 |-> ema.EMA_9, EMA_21 |-> ema.EMA_21,
     EMA_9_prev |-> ema.EMA_9_prev, EMA_21_prev |-> ema.EMA_21_prev]

\* _check_long_criteria: int(criteria_met), a half point counted as 0.5
check_long_criteria(df, trend, pattern, mood) ==
    ( (IF trend \in {"STRONG_UPTREND", "WEAK_UPTREND"} THEN 2 ELSE 0)
    + (IF df.EMA_9_prev <= df.EMA_21_prev /\ df.EMA_9 > df.EMA_21 THEN 2
       ELSE IF df.EMA_9 > df.EMA_21 THEN 1 ELSE 0)
    + (IF df.Stoch_K < StochLow THEN 2 ELSE IF df.Stoch_K < StochMid THEN 1 ELSE 0)
    + (IF pattern.bullish_success_rate > min_pattern_success THEN 2 ELSE 0)
    + (IF mood = "RISK_ON" THEN 2 ELSE IF mood = "NEUTRAL" THEN 1 ELSE 0) ) \div 2

\* _check_short_criteria
check_short_criteria(df, trend, pattern, mood) ==
    ( (IF trend \in {"STRONG_DOWNTREND", "WEAK_DOWNTREND"} THEN 2 ELSE 0)
    + (IF df.EMA_9_prev >= df.EMA_21_prev /\ df.EMA_9 < df.EMA_21 THEN 2
       ELSE IF df.EMA_9 < df.EMA_21 THEN 1 ELSE 0)
    + (IF df.Stoch_K > StochHigh THEN 2 ELSE IF df.Stoch_K > StochMid THEN 1 ELSE 0)
    + (IF pattern.bearish_success_rate > min_pattern_success THEN 2 ELSE 0)
    + (IF mood = "RISK_OFF" THEN 2 ELSE IF mood = "NEUTRAL" THEN 1 ELSE 0) ) \div 2

\* _determine_strength
determine_strength(criteria_met) ==
    IF criteria_met >= min_strong THEN "STRONG"
    ELSE IF criteria_met >= min_medium THEN "MEDIUM"
    ELSE IF criteria_met >= min_weak THEN "WEAK"
    ELSE "NO_SIGNAL"

\* rr_ratio = reward / risk if risk > 0 else 0
rr_of(reward, risk) == IF risk > 0 THEN Frac(reward, risk) ELSE Frac(0, 1)

risk_params(close, stop_loss, take_profit) ==
    [stop_loss |-> stop_loss, take_profit |-> take_profit,
     rr_ratio |-> rr_of(Abs(take_profit - close), Abs(close - stop_loss))]

\* _calculate_risk_params(price, atr, is_long), price in hundredths
calculate_risk_params(close, atr, is_long) ==
    IF is_long
    THEN risk_params(close, close - atr * atr_stop, close + atr * atr_tp)
    ELSE risk_params(close, close + atr * atr_stop, close - atr * atr_tp)

\* latest.get('ATR', price * 0.02), in tenths of a point
atr_of(df) == IF df.ATR = None THEN df.Close \div 5 ELSE Val(df.ATR)

TradingSignal(signal_type, strength, df, success_rate, mood, criteria_met, risk) ==
    [signal_type |-> signal_type, strength |-> strength, price |-> df.Close,
     pattern_success_rate |-> success_rate, sentiment |-> mood,
     criteria_met |-> criteria_met, criteria_total |-> 5,
     suggested_stop_loss |-> IF risk = None THEN None ELSE Some(Val(risk).stop_loss),
     suggested_take_profit |-> IF risk = None THEN None ELSE Some(Val(risk).take_profit),
     risk_reward_ratio |-> IF risk = None THEN None ELSE Some(Val(risk).rr_ratio)]

\* the choice generate_signal makes between the long and the short side
decided(df, pattern, mood, long_criteria, short_criteria) ==
    IF determine_strength(long_criteria) # "NO_SIGNAL" /\ long_criteria >= short_criteria
    THEN TradingSignal("LONG_ENTRY", determine_strength(long_criteria), df,
             pattern.bullish_success_rate, mood, long_criteria,
             Some(calculate_risk_params(100 * df.Close, atr_of(df), TRUE)))
    ELSE IF determine_strength(short_criteria) # "NO_SIGNAL"
    THEN TradingSignal("SHORT_ENTRY", determine_strength(short_criteria), df,
             pattern.bearish_success_rate, mood, short_criteria,
             Some(calculate_risk_params(100 * df.Close, atr_of(df), FALSE)))
    ELSE TradingSignal("NO_SIGNAL", "NO_SIGNAL", df, 50, mood,
             Max(long_criteria, short_criteria), None)

\* generate_signal(df, regime, pattern, sentiment)
generate_signal(df, trend, pattern, mood) ==
    decided(df, pattern, mood, check_long_criteria(df, trend, pattern, mood),
            check_short_criteria(df, trend, pattern, mood))

InitSG ==
    /\ trading_signal = None
    /\ sg_last = [ATR |-> None]

GenerateSignal(df, trend, pattern, mood) ==
    /\ trading_signal' = Some(generate_signal(df, trend, pattern, mood))
    /\ sg_last' = [ATR |-> df.ATR]
    /\ UNCHANGED not_sg

NextSG ==
    \E close \in Closes, atr \in Atrs, ema \in Emas, stoch \in Stochs,
       trend \in TrendStates, pattern \in PatternAnalyses, mood \in MarketSentiments :
        GenerateSignal(Frame(close, atr, ema, stoch), trend, pattern, mood)

(***************************************************************************)
(*                          SENTIMENT ANALYZER                             *)
(*                                                                         *)
(* analysis/sentiment.py, determine_sentiment.  Price changes are in       *)
(* hundredths of a percent, the confidence is an exact fraction.           *)
(***************************************************************************)

up_threshold == 30       \* 0.3 %
down_threshold == -30    \* -0.3 %

\* the price changes determine_sentiment is handed
Changes == {-120, -31, -30, 0, 30, 31, 120}

\* min(abs(sp500_change) + abs(dxy_change) + abs(gold_change), 3) / 3
confidence3(total) == Frac(Min(total, 300), 300)
\* min(abs(sp500_change) + abs(gold_change), 2) / 2 * 0.7
confidence2(total) == Frac(7 * Min(total, 200), 2000)

classified(sentiment, confidence) == [sentiment |-> sentiment, confidence |-> confidence]

\* determine_sentiment(gold_change, sp500_change, dxy_change)
determine_sentiment(gold_change, sp500_change, dxy_change) ==
    LET gold_up == gold_change > up_threshold
        gold_down == gold_change < down_threshold
        sp_up == sp500_change > up_threshold
        sp_down == sp500_change < down_threshold
        dxy_up == dxy_change > up_threshold
        dxy_down == dxy_change < down_threshold
    IN  IF sp_up /\ dxy_down /\ gold_up
        THEN classified("RISK_ON",
                 confidence3(Abs(sp500_change) + Abs(dxy_change) + Abs(gold_change)))
        ELSE IF sp_down /\ dxy_up /\ gold_up
        THEN classified("RISK_OFF",
                 confidence3(Abs(sp500_change) + Abs(dxy_change) + Abs(gold_change)))
        ELSE IF sp_down /\ gold_up
        THEN classified("RISK_OFF", confidence2(Abs(sp500_change) + Abs(gold_change)))
        ELSE IF sp_up /\ gold_up
        THEN classified("RISK_ON", confidence2(Abs(sp500_change) + Abs(gold_change)))
        ELSE IF (gold_up /\ sp_up /\ dxy_up) \/ (gold_down /\ sp_down /\ dxy_down)
        THEN classified("UNCERTAIN", Frac(3, 10))
        ELSE classified("NEUTRAL", Frac(1, 2))

\* the fields of the SentimentReport that analyze fills from the changes
SentimentReport(gold_change, sp500_change, dxy_change, result) ==
    [gold_change |-> gold_change, sp500_change |-> sp500_change,
     dxy_change |-> dxy_change,
     sentiment |-> result.sentiment, confidence |-> result.confidence]

InitSA == sentiment_report = None

Analyze(gold_change, sp500_change, dxy_change) ==
    /\ sentiment_report' = Some(SentimentReport(gold_change, sp500_change, dxy_change,
                               determine_sentiment(gold_change, sp500_change, dxy_change)))
    /\ UNCHANGED not_sa

NextSA == \E g \in Changes, s \in Changes, d \in Changes : Analyze(g, s, d)

(***************************************************************************)
(*                           DATABASE MANAGER                              *)
(*                                                                         *)
(* database/db_manager.py, table ohlcv_data.  A row of the table is        *)
(* keyed by (symbol, date), date being the day of the bar's timestamp      *)
(* (strftime('%Y-%m-%d')).  The id and created_at columns are left out.    *)
(***************************************************************************)

Symbols == {"GC=F", "^GSPC"}
\* timestamps of bars: a day and an hour of that day
Timestamps == { [day |-> 1, hour |-> 0], [day |-> 1, hour |-> 12], [day |-> 2, hour |-> 0] }
Ohlcv == { [open |-> 100, high |-> 110, low |-> 95, close |-> 105, volume |-> 1000],
           [open |-> 100, high |-> 120, low |-> 90, close |-> 115, volume |-> 2000] }
\* the frames handed to save_ohlcv: one bar, or two bars in index order
Bar(timestamp, ohlcv) == [timestamp |-> timestamp, ohlcv |-> ohlcv]
Bars == { Bar(t, v) : t \in Timestamps, v \in Ohlcv }
DataFrames == { <<b>> : b \in Bars } \cup { <<a, b>> : a \in Bars, b \in Bars }

\* date.strftime('%Y-%m-%d')
date_of(timestamp) == timestamp.day

\* INSERT OR REPLACE INTO ohlcv_data ... for each row of the frame in turn
inserted(table, symbol, df) ==
    LET done[i \in 0..Len(df)] ==
            IF i = 0 THEN table
            ELSE Put(done[i - 1], <<symbol, date_of(df[i].timestamp)>>, df[i].ohlcv)
    IN  done[Len(df)]

\* save_ohlcv(symbol, df): the table after the commit and rows_affected
save_ohlcv(table, symbol, df) ==
    [table |-> inserted(table, symbol, df), raised |-> FALSE, rows_affected |-> Len(df)]

\* get_ohlcv(symbol): the rows of the symbol, by date
get_ohlcv(table, symbol) ==
    [date \in {k[2] : k \in {x \in DOMAIN table : x[1] = symbol}} |-> table[<<symbol, date>>]]

\* the timestamps of the bars the rows were written from
stamped(written, symbol, df) ==
    LET done[i \in 0..Len(df)] ==
            IF i = 0 THEN written
            ELSE Put(done[i - 1], <<symbol, date_of(df[i].timestamp)>>, df[i].timestamp)
    IN  done[Len(df)]

InitDB ==
    /\ ohlcv_data = EmptyMap
    /\ bar_written = EmptyMap
    /\ db_last = [op |-> "init"]

SaveOhlcv(symbol, df) ==
    /\ ohlcv_data' = save_ohlcv(ohlcv_data, symbol, df).table
    /\ bar_written' = stamped(bar_written, symbol, df)
    /\ db_last' = [op |-> "save_ohlcv", symbol |-> symbol, df |-> df,
                   before |-> ohlcv_data, written_before |-> bar_written,
                   raised |-> save_ohlcv(ohlcv_data, symbol, df).raised,
                   rows_affected |-> save_ohlcv(ohlcv_data, symbol, df).rows_affected]
    /\ UNCHANGED not_db

NextDB == \E symbol \in Symbols, df \in DataFrames : SaveOhlcv(symbol, df)

Init ==
    /\ InitAL /\ InitSF /\ InitSL /\ InitFB /\ InitPM /\ InitRE /\ InitAT
    /\ InitSG /\ InitSA /\ InitDB

SpecAL == Init /\ [][NextAL]_vars
SpecALDoc == Init /\ [][NextALDoc]_vars
\* the Auto-Logger under the condition that polling cycles keep delivering
\* priced documents while the clock advances
SpecALFair == Init /\ [][NextALFair]_vars /\ WF_<<now, al_last>>(PricedPollStep)

\* the steps of PricedPollStep are the steps of PricedPoll
PricedPollStepIsPricedPoll == [][PricedPollStep <=> PricedPoll]_vars
SpecSF == Init /\ [][NextSF]_vars
SpecSL == Init /\ [][NextSL]_vars
SpecFB == Init /\ [][NextFB]_vars
SpecPM == Init /\ [][NextPM]_vars
SpecRE == Init /\ [][NextRE]_vars
SpecAT == Init /\ [][NextAT]_vars
SpecSG == Init /\ [][NextSG]_vars
SpecSA == Init /\ [][NextSA]_vars
SpecDB == Init /\ [][NextDB]_vars

Next ==
    \/ NextALDoc \/ NextSF \/ NextSL \/ NextFB \/ NextPM \/ NextRE \/ NextAT
    \/ NextSG \/ NextSA \/ NextDB
Spec == Init /\ [][Next]_vars

(***************************************************************************)
(*                          CHECKED PROPERTIES                             *)
(***************************************************************************)

ClosedIds == {id \in DOMAIN db_signals : db_signals[id].status # "OPEN"}

\* C1: once a trade's status has left OPEN, no later tick, outcome check or
\* close call changes its status, exit price, exit time or pnl, and it is
\* never tracked as open again.
C1_TerminalOnce ==
    \A id \in DOMAIN closed_log :
        /\ db_signals[id].status = closed_log[id].status
        /\ db_signals[id].exit_price = closed_log[id].exit_price
        /\ db_signals[id].exit_time = closed_log[id].exit_time
        /\ db_signals[id].pnl = closed_log[id].pnl
        /\ id \notin DOMAIN open_signals

\* C2 (as stated): a completed trade is WIN iff its tick path first touched
\* TP, LOSS iff it first touched SL, and EXPIRED iff the path touched neither
\* TP nor SL within the expiry window.
C2_OutcomeWithinWindow ==
    \A id \in ClosedIds :
        LET st == db_signals[id].status
            f  == path[id].first
        IN  /\ st = "WIN"  <=> (f # None /\ Val(f).kind = "TP")
            /\ st = "LOSS" <=> (f # None /\ Val(f).kind = "SL")
            /\ st = "EXPIRED" <=> ~path[id].in_window

\* C2 (amended): a completed trade is WIN iff the first tick that touched TP
\* or SL touched TP and LOSS iff it touched SL, whether or not that tick fell
\* within the expiry window, and it closed on that tick at that price; it is
\* EXPIRED iff no tick it observed touched TP or SL, and then its last tick
\* came later than signal_expiry_minutes after the open timestamp.  A trade
\* that is still OPEN has touched neither.
C2_OutcomeByFirstTouch ==
    \A id \in DOMAIN db_signals :
        LET row == db_signals[id]
            f   == path[id].first
        IN  /\ row.status = "WIN"  <=> (f # None /\ Val(f).kind = "TP")
            /\ row.status = "LOSS" <=> (f # None /\ Val(f).kind = "SL")
            /\ row.status = "EXPIRED" <=>
                   (f = None /\ path[id].late /\ id \notin DOMAIN open_signals)
            /\ row.status = "OPEN" <=> (f = None /\ id \in DOMAIN open_signals)
            /\ f # None => /\ row.exit_price = Some(Val(f).price)
                           /\ row.exit_time = Some(Val(f).at)

\* C2 witness: a trade closed as WIN by a tick that came after the expiry
\* window, having observed an earlier tick inside the window
C2_Witness ==
    \E id \in ClosedIds :
        /\ db_signals[id].status = "WIN"
        /\ ~path[id].in_window
        /\ path[id].n >= 2

\* C3: every stored paper trade has sl < entry < tp when LONG and
\* tp < entry < sl when SHORT, under every configuration set_config accepts.
C3_LevelsOnCorrectSide ==
    \A id \in DOMAIN db_signals :
        LET r == db_signals[id]
        IN  IF r.direction = "LONG"
            THEN r.stop_loss < r.entry_price /\ r.entry_price < r.take_profit
            ELSE r.take_profit < r.entry_price /\ r.entry_price < r.stop_loss

ActiveIds(vs) == {vs[i].version_id : i \in {j \in 1..Len(vs) : vs[j].is_active}}
ActiveCount(vs) == Cardinality({j \in 1..Len(vs) : vs[j].is_active})

\* C4: after any sequence of create_version, deploy_version, loop iterations
\* and reloads, at most one version is active (in memory and in the persisted
\* file), and current_version is that version whenever one is active.
C4_AtMostOneActive ==
    /\ ActiveCount(versions) <= 1
    /\ \A id \in ActiveIds(versions) : current_version = Some(id)
    /\ versions_file # None => ActiveCount(Val(versions_file).versions) <= 1

\* C4 witness: a deploy that replaced an active version
C4_Witness ==
    /\ sf_last.op = "deploy"
    /\ sf_last.status = "success"
    /\ sf_last.pre_current # None
    /\ sf_last.pre_current # current_version
    /\ ActiveIds(versions) = {sf_last.vid}

GateHolds == sf_last.pre_wr = None \/ sf_last.wr - Val(sf_last.pre_wr) >= min_improvement

\* C5: in a loop iteration that created its version, the new version becomes
\* the active one iff no version was active or new.win_rate - active.win_rate
\* >= min_improvement; otherwise the active version is the same as before.
C5_DeployGate ==
    (sf_last.op = "iteration" /\ sf_last.gate) =>
        /\ GateHolds <=> current_version = Some(sf_last.vid)
        /\ GateHolds <=> ActiveIds(versions) = {sf_last.vid}
        /\ sf_last.status = "success" => (sf_last.deployed <=> GateHolds)
        /\ ~GateHolds => /\ current_version = sf_last.pre_current
                         /\ ActiveIds(versions) = sf_last.pre_active

\* C5 witness: an iteration whose improvement is exactly min_improvement
C5_Witness ==
    /\ sf_last.op = "iteration" /\ sf_last.gate /\ sf_last.status = "success"
    /\ sf_last.pre_wr = Some(58) /\ sf_last.wr = 63
    /\ current_version = Some(sf_last.vid)

\* C6 (as stated): with an active version of win_rate 58, an iteration that
\* produces win_rate 62 deploys it and one that produces 60 does not.
C6_Deploy62Not60 ==
    (sf_last.op = "iteration" /\ sf_last.gate /\ sf_last.pre_wr = Some(58)) =>
        /\ sf_last.wr = 62 => current_version = Some(sf_last.vid)
        /\ sf_last.wr = 60 => current_version = sf_last.pre_current

\* C6 (amended): with an active version of win_rate 58, an iteration that
\* produces win_rate 63 deploys it, and one that produces 62 or 60 does not.
C6_Deploy63Not62 ==
    (sf_last.op = "iteration" /\ sf_last.gate /\ sf_last.pre_wr = Some(58)) =>
        /\ sf_last.wr = 63 => current_version = Some(sf_last.vid)
        /\ sf_last.wr \in {60, 62} =>
               /\ current_version = sf_last.pre_current
               /\ ~sf_last.deployed

\* C6 witness: active 58, the iteration produced 62 and did not deploy
C6_Witness ==
    /\ sf_last.op = "iteration" /\ sf_last.gate /\ sf_last.status = "success"
    /\ sf_last.pre_wr = Some(58) /\ sf_last.wr = 62
    /\ current_version = sf_last.pre_current

\* C7: a loop iteration recorded with status error leaves the in-memory and
\* the persisted active version as they were before it.
C7_FailedIterationKeepsActive ==
    (sf_last.op = "iteration" /\ sf_last.status = "error") =>
        /\ current_version = sf_last.pre_current
        /\ FileActive(versions_file) = sf_last.pre_file

DeployAttempted ==
    \/ sf_last.op = "deploy" /\ sf_last.status # "notfound"
    \/ sf_last.op = "iteration" /\ sf_last.gate
           /\ (sf_last.deployed \/ sf_last.status = "error")

\* C8: after every deploy attempt, completed or failed at the persist or the
\* export step, the in-memory active version, the active version in the
\* persisted file and the version id of the production config are the same.
C8_DeployAtomic ==
    DeployAttempted =>
        /\ FileActive(versions_file) = current_version
        /\ production_config = current_version

RecordOf(id) == signals[Val(find_signal(signals, id))]

\* C9: a record that has reached COMPLETED never returns to TRACKING or
\* PENDING and its result is not changed afterwards.
C9_CompletedIsFinal ==
    \A id \in {i \in DOMAIN completed_as : find_signal(signals, i) # None} :
        /\ RecordOf(id).status = "COMPLETED"
        /\ Val(RecordOf(id).outcome).result = completed_as[id]

\* C10: an update_outcome with a smaller minutes_elapsed than an earlier one
\* is rejected, so the snapshots of every record are non-decreasing in
\* minutes_elapsed.
C10_SnapshotsMonotone ==
    \A i \in 1..Len(signals) :
        signals[i].outcome # None =>
            LET sn == Val(signals[i].outcome).snapshots
            IN  \A a, b \in 1..Len(sn) : a < b => sn[a].minutes <= sn[b].minutes

C12_ExtremesBoundFinalPnl ==
    \A i \in 1..Len(signals) :
        signals[i].status = "COMPLETED" =>
            LET o == Val(signals[i].outcome)
            IN  /\ o.result = "WIN"  => o.max_profit >= o.final_pnl
                /\ o.result = "LOSS" => o.max_drawdown <= o.final_pnl

\* C13: on a tick with a price whose (price, score_long, score_short) differs
\* from last_signal_hash a trade is opened iff max(score_long, score_short) >=
\* min_score, with the direction of the larger score; on a tick equal to
\* last_signal_hash none is opened.
C13_AdmissionIffMaxScore ==
    al_last.kind = "tick" =>
        /\ al_last.fresh => (al_last.opened # None <=> al_last.qualifies)
        /\ al_last.opened # None => al_last.opened = Some(al_last.side)
        /\ ~al_last.fresh => al_last.opened = None

\* C14: a polling cycle that brings no price update (nothing fetched, or a
\* document without `price`) opens no trade, closes no trade and leaves every
\* open trade as it was.
C14_NoPriceIsNoOp ==
    [][al_last'.kind \in {"nofetch", "noprice"} =>
           /\ open_signals' = open_signals
           /\ db_signals' = db_signals]_vars

\* C15: no polling iteration terminates the continuous loop, whatever is
\* raised inside it.
C15_LoopSurvives == loop_alive

ExtremesSigned(r) == r.max_profit >= 0 /\ 0 >= r.max_loss

\* the trade `id` as it is after the step: still tracked, or closed in the store
TradeAfter(id) ==
    IF id \in DOMAIN open_signals' THEN open_signals'[id] ELSE db_signals'[id]

Recent7d == calculate_metrics(fb_recent)
Historical30d == calculate_metrics(Merge(fb_recent, fb_older))

\* C17: after an outcome is recorded the re-optimization trigger fires iff the
\* 7-day win rate < the 30-day win rate - 10 points, or the 7-day profit factor
\* < 1.2, or the 7-day win rate < 50%; when none holds no trigger is logged.
C17_TriggerIff ==
    fb_last.op = "update" =>
        (fb_last.fired <=>
            /\ Recent7d # None
            /\ \/ Val(Recent7d).win_rate < Val(Historical30d).win_rate - 1000
               \/ Val(Recent7d).profit_factor < 120
               \/ Val(Recent7d).win_rate < 5000)

\* C17 witness: 7-day win rate 60%, profit factor 1.4 against a 30-day win
\* rate of 62%, and no trigger
C17_Witness ==
    /\ fb_last.op = "update" /\ ~fb_last.fired /\ fb_triggers = 0
    /\ Recent7d # None
    /\ Val(Recent7d).win_rate = 6000
    /\ Val(Recent7d).profit_factor = 140
    /\ Val(Historical30d).win_rate = 6200

\* C18: every pattern mine_all_patterns puts out, of whichever of the four
\* families, has a sample of at least 30 rows, a win rate of at least 55%
\* and a profit factor of at least 1.3.
C18_PatternGates ==
    \A i \in 1..Len(discovered_patterns) :
        LET p == discovered_patterns[i]
        IN  /\ p.sample_size >= 30
            /\ p.win_rate >= 5500
            /\ p.profit_factor >= 130

\* C19: once evaluate_population has run, every rule that matches fewer than
\* 10 rows of the data has fitness 0, whichever way the rule was made, and
\* so is never placed before a rule of positive fitness.
C19_UnderMatchedIsZero ==
    (re_last.op = "evaluate" /\ re_last.status = "done") =>
        \A i \in 1..Len(population) :
            Matches(population[i], evolution_data) < 10 =>
                /\ population[i].fitness = 0
                /\ \A j \in (i + 1)..Len(population) : population[j].fitness <= 0

\* C20: a second run_full_optimization on the same data as the run before it
\* leaves every field of the TuningConfig as that run left it.
C20_TunerFixpoint ==
    \A k \in 1..(Len(tuner_runs) - 1) :
        tuner_runs[k + 1].data = tuner_runs[k].data =>
            tuner_runs[k + 1].config = tuner_runs[k].config

\* the global results of a run for one parameter whose improvement is at
\* least `least` hundredths of a percent
ResultsOver(run, param, least) ==
    {i \in 1..Len(run.global_results) :
        /\ run.global_results[i].parameter_name = param
        /\ run.global_results[i].improvement >= least}

\* the global parameters of a run are overridden exactly by the results of
\* at least `least`, the later result of two for one parameter staying
GlobalAppliedFrom(run, least) ==
    \A k \in 1..Len(param_names) :
        LET over == ResultsOver(run, param_names[k], least)
        IN  run.config[param_names[k]] =
                IF over = {} THEN run.before[param_names[k]]
                ELSE run.global_results[CHOOSE i \in over : \A j \in over : j <= i].optimal_value

\* the parameters of the config written for a group of at least 50 rows are
\* overridden exactly where the search on the group's rows gains `least`
GroupAppliedFrom(written, tuning, group_data, params, least) ==
    Rows(group_data) >= MinGroupRows =>
        \A k \in 1..Len(params) :
            written[params[k]] =
                IF optimize_parameter(tuning, params[k], group_data, None).improvement >= least
                THEN optimize_parameter(tuning, params[k], group_data, None).optimal_value
                ELSE TuningConfig[params[k]]

GroupsAppliedFrom(run, least) ==
    /\ \A g \in DOMAIN run.config.regime_adjustments :
           GroupAppliedFrom(run.config.regime_adjustments[g], run.config,
               SelectSeq(run.data, LAMBDA d : d.regime = g), regime_params, least)
    /\ \A g \in DOMAIN run.config.session_adjustments :
           GroupAppliedFrom(run.config.session_adjustments[g], run.config,
               SelectSeq(run.data, LAMBDA d : d.session = g), session_params, least)

\* C21: a run of the tuner overrides a global parameter iff its measured
\* improvement is at least 10%, and a parameter of a regime or session iff
\* its improvement on the rows of the group is at least 5%; exactly 10% and
\* exactly 5% are applied.
C21_OverrideIffThreshold ==
    \A k \in 1..Len(tuner_runs) :
        /\ GlobalAppliedFrom(tuner_runs[k], 1000)
        /\ GroupsAppliedFrom(tuner_runs[k], 500)

\* C22: every signal emitted with a type other than NO_SIGNAL, whatever the
\* ATR of the frame (zero included), has its stop loss and take profit on
\* the right sides of the entry price (LONG: SL < entry < TP, SHORT:
\* TP < entry < SL) and a risk/reward ratio of atr_tp / atr_stop.
C22_LevelsAndRatio ==
    (trading_signal # None /\ Val(trading_signal).signal_type # "NO_SIGNAL") =>
        LET sig == Val(trading_signal)
            entry == 100 * sig.price
            sl == Val(sig.suggested_stop_loss)
            tp == Val(sig.suggested_take_profit)
            rr == Val(sig.risk_reward_ratio)
        IN  /\ sig.signal_type = "LONG_ENTRY" => (sl < entry /\ entry < tp)
            /\ sig.signal_type = "SHORT_ENTRY" => (tp < entry /\ entry < sl)
            /\ rr.num * atr_stop = rr.den * atr_tp

\* C23: when gold, the equity index and the USD index all moved up beyond
\* the deadband, or all moved down beyond it, the classification is
\* UNCERTAIN with confidence 0.3.
C23_AllOneWayIsUncertain ==
    sentiment_report # None =>
        LET r == Val(sentiment_report)
            all_up == /\ r.gold_change > up_threshold
                      /\ r.sp500_change > up_threshold
                      /\ r.dxy_change > up_threshold
            all_down == /\ r.gold_change < down_threshold
                        /\ r.sp500_change < down_threshold
                        /\ r.dxy_change < down_threshold
        IN  (all_up \/ all_down) =>
                (r.sentiment = "UNCERTAIN" /\ r.confidence = Frac(3, 10))

\* the rows of the frame of the last save_ohlcv call whose (symbol,
\* timestamp) was already stored, with other values
Rewritten ==
    {i \in 1..Len(db_last.df) :
        LET key == <<db_last.symbol, date_of(db_last.df[i].timestamp)>>
        IN  /\ key \in DOMAIN db_last.before
            /\ db_last.written_before[key] = db_last.df[i].timestamp
            /\ db_last.before[key] # db_last.df[i].ohlcv}

\* C24: a save_ohlcv call that brings a bar whose (symbol, timestamp) is
\* already stored with other values fails and leaves the table as it was,
\* so that the series read back is the one first written.
C24_StoredBarImmutable ==
    (db_last.op = "save_ohlcv" /\ Rewritten # {}) =>
        /\ db_last.raised
        /\ ohlcv_data = db_last.before
        /\ get_ohlcv(ohlcv_data, db_last.symbol) = get_ohlcv(db_last.before, db_last.symbol)

\* C25: a learning iteration that fails or ends without deploying leaves the
\* tuning configuration held by the factory's tuner and the exported
\* optimized_config.json as they were before the iteration.
C25_NoPartialStateOutlivesCycle ==
    (sf_last.op = "iteration" /\ ~sf_last.deployed) =>
        /\ current_config = sf_last.pre_config
        /\ optimized_config = sf_last.pre_optimized

\* C26: within one tick the outcome check tests TP, then SL, then expiry: a
\* stored trade whose closing tick touched TP is a WIN whatever else held on
\* that tick, one whose closing tick touched SL and not TP is a LOSS, and
\* only a tick touching neither closes a trade as EXPIRED.
C26_TpThenSlThenExpiry ==
    \A id \in DOMAIN db_signals :
        LET r == db_signals[id]
        IN  r.status # "OPEN" =>
              LET tp == TouchTP(r, Val(r.exit_price))
                  sl == TouchSL(r, Val(r.exit_price))
              IN  /\ tp => r.status = "WIN"
                  /\ (~tp /\ sl) => r.status = "LOSS"
                  /\ (~tp /\ ~sl) => r.status = "EXPIRED"

\* two polling cycles under the default configuration: the second one
\* touches TP later than signal_expiry_minutes after the open and closes the
\* trade as WIN
C26_Witness ==
    /\ al_ops = 2
    /\ \E id \in DOMAIN db_signals :
          LET r == db_signals[id]
          IN  /\ r.status = "WIN"
              /\ TouchTP(r, Val(r.exit_price))
              /\ Val(r.exit_time) - r.timestamp >
                     DefaultConfig.signal_expiry_minutes * SecondsPerMinute

Tracking(sig) ==
    <<sig.entry_price, sig.stop_loss, sig.take_profit, sig.max_profit, sig.max_loss>>

\* after a restart the logger tracks exactly the stored OPEN rows
C28_TracksOpenRows ==
    al_last.kind = "restart" =>
        DOMAIN open_signals = {id \in DOMAIN db_signals : db_signals[id].status = "OPEN"}

\* after a restart every trade tracked before has its entry, SL, TP and extremes
C28_KeepsExtremes ==
    al_last.kind = "restart" =>
        \A id \in (DOMAIN open_signals) \cap (DOMAIN al_last.tracked) :
            Tracking(open_signals[id]) = Tracking(al_last.tracked[id])

\* after a restart the open counter is the number of tracked trades
C28_CountsOpen ==
    al_last.kind = "restart" => stats.open = Cardinality(DOMAIN open_signals)

\* after a restart the last admitted tick, polled again, opens no trade
C28_KeepsLastTick ==
    al_last.kind = "restart" =>
        \A doc \in TickDocs :
            Some(SignalHash(doc)) = al_last.hash =>
                check_for_new_signal(doc, config, last_signal_hash, now) = None

\* C28: restarting the Auto-Logger on the same store preserves its tracking
\* state: it tracks exactly the stored OPEN rows, each with the entry, SL, TP,
\* max_profit and max_loss it had, the open counter is the number of tracked
\* trades, and the last admitted tick still opens no second trade.
C28_RestartPreservesTracking ==
    /\ C28_TracksOpenRows
    /\ C28_KeepsExtremes
    /\ C28_CountsOpen
    /\ C28_KeepsLastTick

\* C29: update_outcome and complete_signal find every id of which the
\* history file holds a record, also when the record was written through an
\* earlier SignalLogger on the same file.
C29_FoundByLaterInstance ==
    sl_lookup # None => (Val(sl_lookup).persisted => Val(sl_lookup).found)

\* C30: constructing a SignalLogger where no history file exists succeeds
\* and yields an empty log: the constructor raises nothing, a history document
\* exists, and it holds exactly the records logged since (none after the
\* construction, one after the first log_signal).
C30_ConstructsOnMissingFile ==
    sl_new.missing =>
        /\ ~sl_new.raised
        /\ history_exists
        /\ raw_signals = <<>>
        /\ history_file = signals

====
